---- MODULE Spec2Model ----
(***************************************************************************)
(* Model of the tree-rewrite visitor of maybe-async-cfg2                   *)
(* (src/src/visitor_async.rs, AsyncAwaitVisitor) and of the directive      *)
(* names of src/src/lib.rs.                                                *)
(*                                                                         *)
(* The visitor's state is (convert_mode, params, generics).  Every handler *)
(* of the visitor is an operator computing the node it leaves behind; an   *)
(* action applies one handler to one node drawn from a bounded set and     *)
(* records the node it was given (arg) and the node it left (res).         *)
(***************************************************************************)
EXTENDS Integers, Sequences, FiniteSets, TLC

VARIABLES
    convert_mode,   \* AsyncAwaitVisitor.convert_mode
    params,         \* AsyncAwaitVisitor.params (MacroParameters)
    generics,       \* AsyncAwaitVisitor.generics: stack of name -> PathSegment maps
    op,             \* name of the handler that ran last ("none" after construction)
    arg,            \* the node handed to that handler
    res,            \* the node the handler left behind / its result
    panicked,       \* TRUE once a handler has panicked (the invocation is aborted)
    frames          \* history: one record per function item being traversed

vars == <<convert_mode, params, generics, op, arg, res, panicked, frames>>

-----------------------------------------------------------------------------
(* Bounds of the model *)

MaxAttrs == 2       \* longest attribute list handed to process_attrs
MaxStmts == 2       \* most statements in an async block
MaxDepth == 2       \* deepest nesting of function items
MaxParams == 2      \* most generic parameters of a function item
MaxItems == 2       \* most members of a trait or impl block
MaxMacroArgs == 2   \* most arguments of a macro invocation
MaxDocLines == 4    \* most lines of a documentation text
MaxDocAttrs == 3    \* longest attribute list handed to process_doc_attrs

-----------------------------------------------------------------------------
(* Constants of src/src/lib.rs *)

DEFAULT_CRATE_NAME == "maybe_async_cfg2"
MACRO_ONLY_IF_NAME == "only_if"
MACRO_REMOVE_IF_NAME == "remove_if"
MACRO_NOOP_NAME == "noop"
MACRO_REMOVE_NAME == "remove"

IntoSync == "IntoSync"
IntoAsync == "IntoAsync"
ConvertMode == {IntoSync, IntoAsync}

\* Option<T>: None is the empty sequence, Some(x) is <<x>>
None == <<>>
Some(x) == <<x>>
IsSome(o) == Len(o) = 1
Unwrap(o) == o[1]

\* Result<(), syn::Error>
Ok == [ok |-> TRUE, msg |-> "", span |-> None]
Err(span, msg) == [ok |-> FALSE, msg |-> msg, span |-> Some(span)]

-----------------------------------------------------------------------------
(* MacroParameters: the lookups the visitor uses *)

Keys == {"sync", "async"}

key_get(p) == p.key
recursive_asyncness_removal_get(p) == p.recursive_asyncness_removal
send_get(p) == p.send
drop_attrs_is_empty(p) == p.drop_attrs = {}
drop_attrs_contains(p, name) == name \in p.drop_attrs
replace_features_is_empty(p) == DOMAIN p.replace_features = {}
replace_features_get(p, name) ==
    IF name \in DOMAIN p.replace_features THEN Some(p.replace_features[name]) ELSE None
idents_get(p, name) ==
    IF name \in DOMAIN p.idents THEN Some(p.idents[name]) ELSE None

\* An attribute is one of ours when its path is <prefix>::<name>
is_our_attr(p, attr) ==
    IF Len(attr.path) = 2 /\ attr.path[1] = p.prefix THEN Some(attr.path[2]) ELSE None

make_self_path(p, name) == <<p.prefix, name>>

EmptyMap == [x \in {} |-> ""]

DefaultParams ==
    [ prefix |-> DEFAULT_CRATE_NAME,
      key |-> None,
      recursive_asyncness_removal |-> TRUE,
      send |-> None,
      drop_attrs |-> {},
      replace_features |-> EmptyMap,
      idents |-> EmptyMap ]

-----------------------------------------------------------------------------
(* Attributes.  An attribute is [path, args]: its path (a sequence of      *)
(* identifiers) and the comma-separated list in its parentheses, each      *)
(* element a syn::NestedMeta:                                              *)
(*   [kind |-> "lit",  lit |-> [kind, value]]          a literal           *)
(*   [kind |-> "path", path |-> <<..>>]                a bare path         *)
(*   [kind |-> "name_value", path, lit]                path = literal      *)
(*   [kind |-> "list", path, nested |-> <<..>>]        path(...)           *)

LitStr(s) == [kind |-> "str", value |-> s]
LitInt(s) == [kind |-> "int", value |-> s]
NmLit(l) == [kind |-> "lit", path |-> <<>>, lit |-> l, nested |-> <<>>]
NmPath(p) == [kind |-> "path", path |-> p, lit |-> LitInt(""), nested |-> <<>>]
NmNameValue(p, l) == [kind |-> "name_value", path |-> p, lit |-> l, nested |-> <<>>]
NmList(p, n) == [kind |-> "list", path |-> p, lit |-> LitInt(""), nested |-> n]

Attr(path, args) == [path |-> path, args |-> args]

-----------------------------------------------------------------------------
(* process_attribute_if: resolve only_if / remove_if against the key *)

attribute_if_key_any_name(a) ==
    IF a.kind = "lit" /\ a.lit.kind = "str" THEN [ok |-> TRUE, key |-> a.lit.value]
    ELSE IF a.kind = "path" THEN
        IF Len(a.path) = 1 THEN [ok |-> TRUE, key |-> a.path[1]]
        ELSE [ok |-> FALSE, key |-> ""]
    ELSE IF a.kind = "name_value" /\ a.lit.kind = "str"
        THEN [ok |-> TRUE, key |-> a.lit.value]
    ELSE [ok |-> FALSE, key |-> ""]

\* the key named by the single argument, or an error
attribute_if_key(a) ==
    IF a.kind = "lit" /\ a.lit.kind = "str" THEN [ok |-> TRUE, key |-> a.lit.value]
    ELSE IF a.kind = "path" THEN
        IF Len(a.path) = 1 THEN [ok |-> TRUE, key |-> a.path[1]]
        ELSE [ok |-> FALSE, key |-> ""]
    ELSE IF a.kind = "name_value" /\ a.lit.kind = "str" /\ a.path = <<"key">>
        THEN [ok |-> TRUE, key |-> a.lit.value]
    ELSE [ok |-> FALSE, key |-> ""]

attribute_if_success_flipped(p, key, not) ==
    IF IsSome(key_get(p)) THEN (Unwrap(key_get(p)) = key) ELSE FALSE

attribute_if_success_negated_without_key(p, key, not) ==
    IF IsSome(key_get(p)) THEN (Unwrap(key_get(p)) = key) # not ELSE not

attribute_if_success(p, key, not) ==
    IF IsSome(key_get(p)) THEN (Unwrap(key_get(p)) = key) # not ELSE FALSE

\* returns [result, attr]: the Result and the attribute as it is left
process_attribute_if(p, attr, not) ==
    IF Len(attr.args) = 0 THEN
        [result |-> Err(attr, "Expected ident"), attr |-> attr]
    ELSE IF Len(attr.args) > 1 THEN
        [result |-> Err(attr.args[2], "Too many arguments"), attr |-> attr]
    ELSE
        LET a == attr.args[1]
            k == attribute_if_key(a)
        IN  IF ~k.ok THEN [result |-> Err(a, "Wrong ident"), attr |-> attr]
            ELSE LET new_name == IF attribute_if_success(p, k.key, not)
                                 THEN MACRO_NOOP_NAME ELSE MACRO_REMOVE_NAME
                 IN  [result |-> Ok,
                      attr |-> [attr EXCEPT !.path = make_self_path(p, new_name)]]

-----------------------------------------------------------------------------
(* process_replace_features_meta: rewrite feature = "old" inside a meta *)

RECURSIVE process_replace_features_meta(_, _)
\* returns [changed, meta]
process_replace_features_meta(p, meta) ==
    IF meta.kind = "name_value" /\ meta.lit.kind = "str" THEN
        IF meta.path = <<"feature">> /\ IsSome(replace_features_get(p, meta.lit.value))
        THEN [changed |-> TRUE,
              meta |-> [meta EXCEPT !.lit =
                            LitStr(Unwrap(replace_features_get(p, meta.lit.value)))]]
        ELSE [changed |-> FALSE, meta |-> meta]
    ELSE IF meta.kind = "list" THEN
        LET sub == [i \in 1..Len(meta.nested) |->
                        IF meta.nested[i].kind = "lit"
                        THEN [changed |-> FALSE, meta |-> meta.nested[i]]
                        ELSE process_replace_features_meta(p, meta.nested[i])]
        IN  [changed |-> \E i \in 1..Len(sub) : sub[i].changed,
             meta |-> [meta EXCEPT !.nested = [i \in 1..Len(sub) |-> sub[i].meta]]]
    ELSE [changed |-> FALSE, meta |-> meta]

\* syn::Attribute::parse_meta: the attribute read as one meta item
parse_meta(attr) ==
    IF Len(attr.args) = 0 THEN NmPath(attr.path) ELSE NmList(attr.path, attr.args)

-----------------------------------------------------------------------------
(* process_attrs: directive pass, drop pass, feature-replacement pass *)

RECURSIVE attrs_directive_pass(_, _, _)
\* the loop of process_attrs over attrs[i..]; stops at the first error
attrs_directive_pass(p, attrs, i) ==
    IF i > Len(attrs) THEN [result |-> Ok, attrs |-> attrs]
    ELSE LET name == is_our_attr(p, attrs[i])
         IN  IF IsSome(name) /\ Unwrap(name) \in {MACRO_ONLY_IF_NAME, MACRO_REMOVE_IF_NAME}
             THEN LET r == process_attribute_if(p, attrs[i],
                                                Unwrap(name) = MACRO_REMOVE_IF_NAME)
                  IN  IF ~r.result.ok THEN [result |-> r.result, attrs |-> attrs]
                      ELSE attrs_directive_pass(p, [attrs EXCEPT ![i] = r.attr], i + 1)
             ELSE attrs_directive_pass(p, attrs, i + 1)

attrs_drop_retain_last_segment(p, attr) ==
    ~drop_attrs_contains(p, attr.path[Len(attr.path)])

attrs_drop_retain(p, attr) ==
    IF Len(attr.path) = 1 THEN ~drop_attrs_contains(p, attr.path[1]) ELSE TRUE

attrs_drop_pass_first_only(p, attrs) ==
    IF Len(attrs) > 0 /\ ~attrs_drop_retain(p, attrs[1]) THEN Tail(attrs) ELSE attrs

attrs_drop_pass(p, attrs) ==
    IF ~drop_attrs_is_empty(p)
    THEN SelectSeq(attrs, LAMBDA a : attrs_drop_retain(p, a))
    ELSE attrs

attrs_replace_one_flat(p, attr) ==
    IF attr.path = <<"cfg">> THEN
        [attr EXCEPT !.args = [i \in 1..Len(attr.args) |->
            IF attr.args[i].kind = "name_value"
            THEN process_replace_features_meta(p, attr.args[i]).meta
            ELSE attr.args[i]]]
    ELSE attr

attrs_replace_one_any_path(p, attr) ==
    LET r == process_replace_features_meta(p, parse_meta(attr))
    IN  IF r.changed /\ r.meta.kind = "list"
        THEN [attr EXCEPT !.args = r.meta.nested]
        ELSE attr

attrs_replace_one(p, attr) ==
    IF attr.path = <<"cfg">> THEN
        LET r == process_replace_features_meta(p, parse_meta(attr))
        IN  IF r.changed /\ r.meta.kind = "list"
            THEN [attr EXCEPT !.args = r.meta.nested]
            ELSE attr
    ELSE attr

attrs_replace_pass(p, attrs) ==
    IF ~replace_features_is_empty(p)
    THEN [i \in 1..Len(attrs) |-> attrs_replace_one(p, attrs[i])]
    ELSE attrs

\* returns [result, attrs]
process_attrs(p, attrs) ==
    LET d == attrs_directive_pass(p, attrs, 1)
    IN  IF ~d.result.ok THEN d
        ELSE [result |-> Ok,
              attrs |-> attrs_replace_pass(p, attrs_drop_pass(p, d.attrs))]

\* the attribute macros of lib.rs applied to the item that carries them:
\* only_if, remove_if and noop return the body, remove returns nothing
expand_marker(name, body) ==
    IF name = MACRO_REMOVE_NAME THEN <<>> ELSE <<body>>

-----------------------------------------------------------------------------
(* Inputs of process_attrs *)

DirectiveArgs ==
    UNION { { <<NmPath(<<x>>)>>, <<NmLit(LitStr(x))>>,
              <<NmNameValue(<<"key">>, LitStr(x))>> } : x \in {"sync", "foo"} }

BadDirectiveArgs ==
    { <<>>,
      <<NmPath(<<"sync">>), NmPath(<<"foo">>)>>,
      <<NmLit(LitInt("1"))>>,
      <<NmPath(<<"a", "sync">>)>>,
      <<NmNameValue(<<"name">>, LitStr("sync"))>>,
      <<NmNameValue(<<"key">>, LitInt("1"))>>,
      <<NmList(<<"key">>, <<NmPath(<<"sync">>)>>)>> }

DirectiveAttrs ==
    { Attr(<<DEFAULT_CRATE_NAME, n>>, a) :
        n \in {MACRO_ONLY_IF_NAME, MACRO_REMOVE_IF_NAME}, a \in DirectiveArgs }

BadDirectiveAttrs ==
    { Attr(<<DEFAULT_CRATE_NAME, MACRO_ONLY_IF_NAME>>, a) : a \in BadDirectiveArgs }
    \cup { Attr(<<DEFAULT_CRATE_NAME, MACRO_REMOVE_IF_NAME>>, <<>>),
           Attr(<<DEFAULT_CRATE_NAME, MACRO_REMOVE_IF_NAME>>, <<NmLit(LitInt("1"))>>) }

FeatureSecure == NmNameValue(<<"feature">>, LitStr("secure"))
FeatureOther == NmNameValue(<<"feature">>, LitStr("other"))
FeatureSecureSync == NmNameValue(<<"feature">>, LitStr("secure_sync"))

OtherAttrs ==
    { Attr(<<"marker">>, <<>>),
      Attr(<<"a", "marker">>, <<>>),
      Attr(<<"other">>, <<NmPath(<<"x">>)>>),
      Attr(<<DEFAULT_CRATE_NAME, MACRO_NOOP_NAME>>, <<>>),
      Attr(<<"othercrate", MACRO_ONLY_IF_NAME>>, <<NmPath(<<"sync">>)>>),
      Attr(<<"cfg">>, <<FeatureSecure>>),
      Attr(<<"cfg">>, <<FeatureOther>>),
      Attr(<<"cfg">>, <<FeatureSecureSync>>),
      Attr(<<"cfg">>, <<NmList(<<"any">>,
                          <<FeatureOther, NmList(<<"not">>, <<FeatureSecure>>)>>)>>),
      Attr(<<"cfg_attr">>, <<FeatureSecure, NmPath(<<"marker">>)>>) }

AttrInputs == DirectiveAttrs \cup BadDirectiveAttrs \cup OtherAttrs

SeqsUpTo(S, n) == UNION { [1..k -> S] : k \in 0..n }

AttrLists == SeqsUpTo(AttrInputs, MaxAttrs)

DropAttrsInputs == { {}, {"marker"} }
ReplaceFeaturesInputs ==
    { EmptyMap,
      [x \in {"secure"} |-> "secure_sync"],
      [x \in {"secure", "secure_sync"} |->
          IF x = "secure" THEN "secure_sync" ELSE "secure_more"] }

KeyInputs == {None} \cup { Some(k) : k \in Keys }

-----------------------------------------------------------------------------
(* SpecAttrs: the visitor applied to attribute lists *)

InitCommon ==
    /\ generics = <<>>
    /\ op = "none"
    /\ arg = <<>>
    /\ res = <<>>
    /\ panicked = FALSE
    /\ frames = <<>>

InitAttrs ==
    /\ convert_mode \in ConvertMode
    /\ \E k \in KeyInputs, d \in DropAttrsInputs, r \in ReplaceFeaturesInputs :
          params = [DefaultParams EXCEPT !.key = k, !.drop_attrs = d,
                                         !.replace_features = r]
    /\ InitCommon

\* the visitor is between two nodes: the last handler has returned
Idle == ~panicked /\ op = "none"

\* the traversal moves on from the node just handled
Return ==
    /\ ~panicked
    /\ op # "none"
    /\ op' = "none"
    /\ arg' = <<>>
    /\ res' = <<>>
    /\ UNCHANGED <<convert_mode, params, generics, panicked, frames>>

ProcessAttrs ==
    /\ Idle
    /\ \E attrs \in AttrLists :
          /\ op' = "process_attrs"
          /\ arg' = attrs
          /\ res' = process_attrs(params, attrs)
    /\ UNCHANGED <<convert_mode, params, generics, panicked, frames>>

NextAttrs == ProcessAttrs \/ Return

SpecAttrs == InitAttrs /\ [][NextAttrs]_vars

-----------------------------------------------------------------------------
(* C1 *)

\* the attributes of a list that carry this crate's prefix, in order
OurAttrs(p, attrs) == SelectSeq(attrs, LAMBDA a : IsSome(is_our_attr(p, a)))

\* attr is the directive `name` written with the single argument x, in one of
\* the three accepted spellings: x, "x", key = "x"
IsDirective(attr, name, x) ==
    /\ attr.path = <<DEFAULT_CRATE_NAME, name>>
    /\ attr.args \in { <<NmPath(<<x>>)>>, <<NmLit(LitStr(x))>>,
                       <<NmNameValue(<<"key">>, LitStr(x))>> }

\* C1: with current key K, only_if(X) is rewritten to the no-op marker (the item
\* is kept) exactly when K = X and to the removal marker otherwise; remove_if(X)
\* is rewritten to the removal marker exactly when K = X and to the no-op
\* marker otherwise.
C1_ConditionalDirective ==
    (op = "process_attrs" /\ res.result.ok /\ IsSome(params.key)) =>
        LET K == Unwrap(params.key)
            ins == OurAttrs(params, arg)
            outs == OurAttrs(params, res.attrs)
        IN  /\ Len(outs) = Len(ins)
            /\ \A j \in 1..Len(ins) : \A x \in {"sync", "foo"} :
                  /\ IsDirective(ins[j], MACRO_ONLY_IF_NAME, x) =>
                        /\ outs[j].path = <<DEFAULT_CRATE_NAME,
                                IF K = x THEN MACRO_NOOP_NAME ELSE MACRO_REMOVE_NAME>>
                        /\ expand_marker(outs[j].path[2], "item")
                                = IF K = x THEN <<"item">> ELSE <<>>
                  /\ IsDirective(ins[j], MACRO_REMOVE_IF_NAME, x) =>
                        /\ outs[j].path = <<DEFAULT_CRATE_NAME,
                                IF K = x THEN MACRO_REMOVE_NAME ELSE MACRO_NOOP_NAME>>
                        /\ expand_marker(outs[j].path[2], "item")
                                = IF K = x THEN <<>> ELSE <<"item">>

\* C1 witness: under key "sync", only_if(key = "sync") became noop and
\* remove_if(sync) became remove in one processed list
C1_Witness ==
    /\ op = "process_attrs"
    /\ params.key = Some("sync")
    /\ Len(arg) = 2
    /\ IsDirective(arg[1], MACRO_ONLY_IF_NAME, "sync")
    /\ IsDirective(arg[2], MACRO_REMOVE_IF_NAME, "sync")
    /\ res.result.ok
    /\ res.attrs[1].path = <<DEFAULT_CRATE_NAME, MACRO_NOOP_NAME>>
    /\ res.attrs[2].path = <<DEFAULT_CRATE_NAME, MACRO_REMOVE_NAME>>

-----------------------------------------------------------------------------
(* C11 *)

\* the attribute's path is the single identifier N and the drop list holds N
NamedInDropList(p, a) == Len(a.path) = 1 /\ a.path[1] \in p.drop_attrs

\* the attribute is one of the two conditional directives of this crate
IsConditional(p, a) ==
    a.path \in { <<p.prefix, MACRO_ONLY_IF_NAME>>, <<p.prefix, MACRO_REMOVE_IF_NAME>> }

\* how many attributes of the list are named n
CountNamed(attrs, n) == Cardinality({ i \in 1..Len(attrs) : attrs[i].path = <<n>> })

C11_WitnessRetained ==
    /\ op = "process_attrs"
    /\ params.drop_attrs = {}
    /\ Len(arg) = 2
    /\ arg[1].path = <<"marker">>
    /\ res.result.ok
    /\ res.attrs[1] = arg[1]

-----------------------------------------------------------------------------
(* C12 *)

RECURSIVE FeaturesReplaced(_, _)
\* the meta item with every feature = "old" literal whose name is a key of the
\* map replaced by the mapped name, at every depth of nested lists
FeaturesReplaced(map, m) ==
    IF m.kind = "name_value" /\ m.path = <<"feature">> /\ m.lit.kind = "str"
       /\ m.lit.value \in DOMAIN map
    THEN [m EXCEPT !.lit = LitStr(map[m.lit.value])]
    ELSE IF m.kind = "list"
    THEN [m EXCEPT !.nested = [i \in 1..Len(m.nested) |-> FeaturesReplaced(map, m.nested[i])]]
    ELSE m

CfgAttrs(attrs) == SelectSeq(attrs, LAMBDA a : a.path = <<"cfg">>)

\* C12: every feature = "old" literal inside a cfg attribute whose name is a key
\* of the feature-replacement map is rewritten to the mapped name, at any
\* nesting depth; literals whose name is not a key are unchanged; an empty map
\* leaves every cfg attribute unchanged.
C12_ReplaceFeatures ==
    (op = "process_attrs" /\ res.result.ok /\ "cfg" \notin params.drop_attrs) =>
        LET ins == CfgAttrs(arg)
            outs == CfgAttrs(res.attrs)
            map == params.replace_features
        IN  /\ Len(outs) = Len(ins)
            /\ \A i \in 1..Len(ins) :
                  /\ Len(outs[i].args) = Len(ins[i].args)
                  /\ \A j \in 1..Len(ins[i].args) :
                        outs[i].args[j] = FeaturesReplaced(map, ins[i].args[j])
                  /\ DOMAIN map = {} => outs[i] = ins[i]

\* C12 witness: with secure -> secure_sync, the literal nested two levels deep
\* in cfg(any(feature = "other", not(feature = "secure"))) was rewritten and
\* feature = "other" was not
C12_Witness ==
    /\ op = "process_attrs"
    /\ "secure" \in DOMAIN params.replace_features
    /\ Len(arg) = 1
    /\ arg[1] = Attr(<<"cfg">>, <<NmList(<<"any">>,
                        <<FeatureOther, NmList(<<"not">>, <<FeatureSecure>>)>>)>>)
    /\ res.result.ok
    /\ res.attrs[1] = Attr(<<"cfg">>, <<NmList(<<"any">>,
                        <<FeatureOther, NmList(<<"not">>, <<FeatureSecureSync>>)>>)>>)

-----------------------------------------------------------------------------
(* C15 *)

\* the three accepted kinds of a directive's argument
AcceptedDirectiveArg(a) ==
    \/ a.kind = "path" /\ Len(a.path) = 1
    \/ a.kind = "lit" /\ a.lit.kind = "str"
    \/ a.kind = "name_value" /\ a.path = <<"key">> /\ a.lit.kind = "str"

Malformed(p, a) ==
    IsConditional(p, a) /\ (Len(a.args) # 1 \/ ~AcceptedDirectiveArg(a.args[1]))

\* where the error of a malformed directive points
ExpectedSpan(a) ==
    IF Len(a.args) = 0 THEN a
    ELSE IF Len(a.args) > 1 THEN a.args[2]
    ELSE a.args[1]

\* C15: only_if / remove_if with zero arguments, more than one argument, or one
\* argument that is not a bare single identifier, a string literal or
\* key = "<string>" yields an error (spanning the whole attribute, the second
\* argument, the offending argument respectively) and the attribute's path is
\* not rewritten.
C15_MalformedDirective ==
    (op = "process_attrs" /\ \E i \in 1..Len(arg) : Malformed(params, arg[i])) =>
        LET i == CHOOSE i \in 1..Len(arg) :
                    /\ Malformed(params, arg[i])
                    /\ \A j \in 1..(i - 1) : ~Malformed(params, arg[j])
        IN  /\ ~res.result.ok
            /\ res.result.span = Some(ExpectedSpan(arg[i]))
            /\ res.attrs[i] = arg[i]

\* C15 witness: a well-formed directive was rewritten, then only_if(a, b)
\* returned the error spanning its second argument
C15_Witness ==
    /\ op = "process_attrs"
    /\ Len(arg) = 2
    /\ IsDirective(arg[1], MACRO_REMOVE_IF_NAME, "foo")
    /\ arg[2].path = <<DEFAULT_CRATE_NAME, MACRO_ONLY_IF_NAME>>
    /\ Len(arg[2].args) = 2
    /\ ~res.result.ok
    /\ res.result.msg = "Too many arguments"
    /\ res.result.span = Some(arg[2].args[2])
    /\ res.attrs[2] = arg[2]

\* C15 witness: a directive without arguments and one with a wrong kind of
\* argument
C15_WitnessKinds ==
    /\ op = "process_attrs"
    /\ Len(arg) = 1
    /\ IsConditional(params, arg[1])
    /\ ~res.result.ok
    /\ \/ Len(arg[1].args) = 0 /\ res.result.span = Some(arg[1])
       \/ Len(arg[1].args) = 1 /\ res.result.span = Some(arg[1].args[1])

-----------------------------------------------------------------------------
(* C22 *)

\* attr is only_if or remove_if of this crate with one well-formed argument
IsWellFormedConditional(p, a) ==
    IsConditional(p, a) /\ Len(a.args) = 1 /\ AcceptedDirectiveArg(a.args[1])

\* C22: without a current variant key both only_if(X) and remove_if(X) are
\* rewritten to the removal marker, for every argument X, and the item they
\* tag is deleted in both cases.
C22_NoKeyRemoves ==
    (op = "process_attrs" /\ res.result.ok /\ ~IsSome(params.key)) =>
        /\ Len(OurAttrs(params, res.attrs)) = Len(OurAttrs(params, arg))
        /\ \A j \in 1..Len(OurAttrs(params, arg)) :
              IsWellFormedConditional(params, OurAttrs(params, arg)[j]) =>
                 /\ OurAttrs(params, res.attrs)[j].path
                        = <<DEFAULT_CRATE_NAME, MACRO_REMOVE_NAME>>
                 /\ OurAttrs(params, res.attrs)[j].args = OurAttrs(params, arg)[j].args
                 /\ expand_marker(OurAttrs(params, res.attrs)[j].path[2], "item") = <<>>

\* C22 witness: without a key, only_if(sync) and remove_if(sync) in one list
\* both became the removal marker
C22_Witness ==
    /\ op = "process_attrs"
    /\ params.key = None
    /\ Len(arg) = 2
    /\ IsDirective(arg[1], MACRO_ONLY_IF_NAME, "sync")
    /\ IsDirective(arg[2], MACRO_REMOVE_IF_NAME, "sync")
    /\ res.result.ok
    /\ res.attrs[1].path = <<DEFAULT_CRATE_NAME, MACRO_REMOVE_NAME>>
    /\ res.attrs[2].path = <<DEFAULT_CRATE_NAME, MACRO_REMOVE_NAME>>

-----------------------------------------------------------------------------
(* C23 *)

\* the attributes written with a path of several segments, in order
QualifiedAttrs(attrs) == SelectSeq(attrs, LAMBDA a : Len(a.path) > 1)

\* C23: the drop pass removes only attributes whose path is a single
\* identifier of the drop list; an attribute written with a path of several
\* segments is never removed, even when its last segment is in the list.
C23_QualifiedPathKept ==
    (op = "process_attrs" /\ res.result.ok) =>
        /\ Len(QualifiedAttrs(res.attrs)) = Len(QualifiedAttrs(arg))
        /\ \A j \in 1..Len(QualifiedAttrs(arg)) :
              /\ QualifiedAttrs(res.attrs)[j].args = QualifiedAttrs(arg)[j].args
              /\ ~IsConditional(params, QualifiedAttrs(arg)[j]) =>
                    QualifiedAttrs(res.attrs)[j] = QualifiedAttrs(arg)[j]
        /\ Len(arg) - Len(res.attrs)
              = Cardinality({ i \in 1..Len(arg) : NamedInDropList(params, arg[i]) })

\* C23 witness: with "marker" in the drop list, #[marker] was removed and
\* #[a::marker] was kept
C23_Witness ==
    /\ op = "process_attrs"
    /\ "marker" \in params.drop_attrs
    /\ arg = <<Attr(<<"marker">>, <<>>), Attr(<<"a", "marker">>, <<>>)>>
    /\ res.result.ok
    /\ res.attrs = <<Attr(<<"a", "marker">>, <<>>)>>

-----------------------------------------------------------------------------
(* C24 *)

RECURSIVE HasMappedLiteral(_, _)
\* the meta item holds a feature = "old" literal whose name is a key of the map
HasMappedLiteral(map, m) ==
    \/ /\ m.kind = "name_value" /\ m.path = <<"feature">> /\ m.lit.kind = "str"
       /\ m.lit.value \in DOMAIN map
    \/ /\ m.kind = "list"
       /\ \E i \in 1..Len(m.nested) : HasMappedLiteral(map, m.nested[i])

\* the attribute is one the feature-replacement pass is to change
IsMappedCfg(map, a) ==
    /\ a.path = <<"cfg">>
    /\ \E i \in 1..Len(a.args) : HasMappedLiteral(map, a.args[i])

\* C24: the feature-replacement pass changes only attributes whose path is
\* exactly cfg and that hold a mapped feature literal; every other attribute
\* (cfg_attr and a cfg without a mapped literal included) keeps its tokens,
\* and each literal is looked up once: a replacement that is itself a key of
\* the map is not replaced again.
C24_ReplaceOnlyMappedCfg ==
    (op = "process_attrs" /\ res.result.ok) =>
        LET kept == SelectSeq(arg, LAMBDA a : ~NamedInDropList(params, a))
            map == params.replace_features
        IN  /\ Len(res.attrs) = Len(kept)
            /\ \A i \in 1..Len(kept) :
                  /\ ~IsMappedCfg(map, kept[i]) => res.attrs[i].args = kept[i].args
                  /\ IsMappedCfg(map, kept[i]) =>
                        /\ res.attrs[i].path = <<"cfg">>
                        /\ res.attrs[i].args # kept[i].args
                        /\ kept[i].args = <<FeatureSecure>> =>
                              res.attrs[i].args
                                  = <<NmNameValue(<<"feature">>, LitStr(map["secure"]))>>

\* C24 witness: with secure -> secure_sync and secure_sync -> secure_more,
\* cfg(feature = "secure") became cfg(feature = "secure_sync") and
\* cfg_attr(feature = "secure", marker) kept its tokens
C24_Witness ==
    /\ op = "process_attrs"
    /\ DOMAIN params.replace_features = {"secure", "secure_sync"}
    /\ arg = <<Attr(<<"cfg">>, <<FeatureSecure>>),
               Attr(<<"cfg_attr">>, <<FeatureSecure, NmPath(<<"marker">>)>>)>>
    /\ res.result.ok
    /\ res.attrs = <<Attr(<<"cfg">>, <<FeatureSecureSync>>), arg[2]>>

-----------------------------------------------------------------------------
(* Expressions and statements.                                             *)
(*   EPath(n)          a path / call expression named n                    *)
(*   EAwait(e)         e.await                                             *)
(*   EAsync(a, ss)     async { ss } carrying attributes a                  *)
(*   EBlock(a, ss, l)  { ss } with attributes a and optional label l       *)
(* A statement is [kind, expr]: "expr" (a tail expression, no semicolon),  *)
(* "semi" (expression with semicolon), "local" (let binding initialised by *)
(* expr) or "item" (a nested item).                                        *)

EPath(n) ==
    [kind |-> "path", name |-> n, base |-> <<>>, attrs |-> <<>>, stmts |-> <<>>,
     label |-> None]
EAwait(e) ==
    [kind |-> "await", name |-> "", base |-> <<e>>, attrs |-> <<>>, stmts |-> <<>>,
     label |-> None]
EAsync(a, ss) ==
    [kind |-> "async", name |-> "", base |-> <<>>, attrs |-> a, stmts |-> ss,
     label |-> None]
EBlock(a, ss, l) ==
    [kind |-> "block", name |-> "", base |-> <<>>, attrs |-> a, stmts |-> ss,
     label |-> l]

Stmt(k, e) == [kind |-> k, expr |-> e]

\* quote!(#stmt): the tokens of a statement
stmt_to_tokens(stmt) ==
    IF stmt.kind = "expr" THEN <<"expr", stmt.expr>>
    ELSE IF stmt.kind = "semi" THEN <<"expr", stmt.expr, ";">>
    ELSE IF stmt.kind = "local" THEN <<"let", stmt.expr, ";">>
    ELSE <<"item", stmt.expr>>

\* syn's parser for Expr run over a whole token stream: it fails when the
\* stream does not start with an expression or when tokens are left over
parse_expr(tokens) ==
    IF Len(tokens) = 2 /\ tokens[1] = "expr"
    THEN [ok |-> TRUE, expr |-> tokens[2]]
    ELSE [ok |-> FALSE, expr |-> EPath("")]

\* parse_quote!(#stmt): panics when the tokens do not parse
parse_quote_expr(stmt) ==
    LET r == parse_expr(stmt_to_tokens(stmt))
    IN  [panic |-> ~r.ok, node |-> r.expr]

process_expr_await_dropped(mode, node) ==
    IF mode = IntoSync /\ node.kind = "await"
    THEN [panic |-> FALSE, node |-> EBlock(<<>>, <<>>, None)]
    ELSE [panic |-> FALSE, node |-> node]

\* returns [panic, node]
process_expr(mode, node) ==
    IF mode = IntoSync THEN
        IF node.kind = "await" THEN [panic |-> FALSE, node |-> node.base[1]]
        ELSE IF node.kind = "async" THEN
            IF Len(node.stmts) = 1
            THEN parse_quote_expr(node.stmts[1])
            ELSE [panic |-> FALSE, node |-> EBlock(node.attrs, node.stmts, None)]
        ELSE [panic |-> FALSE, node |-> node]
    ELSE [panic |-> FALSE, node |-> node]

-----------------------------------------------------------------------------
(* Items: asyncness of functions and of the methods of traits and impls *)

ItemFn(a) == [asyncness |-> a]
Member(k, a) == [kind |-> k, asyncness |-> a]     \* TraitItem / ImplItem
ItemTrait(items) == [items |-> items]
ItemImpl(attrs, items) == [attrs |-> attrs, items |-> items]

\* make_attr_from_str: the attribute written in the string
make_attr_from_str(str) ==
    IF str = "async_trait::async_trait"
    THEN Attr(<<"async_trait", "async_trait">>, <<>>)
    ELSE Attr(<<"async_trait", "async_trait">>, <<NmPath(<<"?Send">>)>>)

remove_asyncness_on_members(items) ==
    [i \in 1..Len(items) |->
        IF items[i].kind = "method" /\ items[i].asyncness
        THEN [items[i] EXCEPT !.asyncness = FALSE]
        ELSE items[i]]

remove_asyncness_on_trait(item, mode) ==
    IF mode = IntoSync
    THEN [item EXCEPT !.items = remove_asyncness_on_members(item.items)]
    ELSE item

remove_asyncness_on_impl_prepending(item, mode, send) ==
    IF mode = IntoSync
    THEN [item EXCEPT !.items = remove_asyncness_on_members(item.items)]
    ELSE IF IsSome(send)
         THEN LET attr_str == IF Unwrap(send) THEN "async_trait::async_trait"
                              ELSE "async_trait::async_trait(?Send)"
              IN  [item EXCEPT !.attrs = <<make_attr_from_str(attr_str)>> \o item.attrs]
         ELSE item

remove_asyncness_on_impl(item, mode, send) ==
    IF mode = IntoSync
    THEN [item EXCEPT !.items = remove_asyncness_on_members(item.items)]
    ELSE IF IsSome(send)
         THEN LET attr_str == IF Unwrap(send) THEN "async_trait::async_trait"
                              ELSE "async_trait::async_trait(?Send)"
              IN  [item EXCEPT !.attrs = Append(item.attrs, make_attr_from_str(attr_str))]
         ELSE item

remove_asyncness_on_fn(item, mode) ==
    IF mode = IntoSync /\ item.asyncness
    THEN [item EXCEPT !.asyncness = FALSE]
    ELSE item

process_item_impl(p, mode, node) ==
    IF recursive_asyncness_removal_get(p)
    THEN remove_asyncness_on_impl(node, mode, send_get(p))
    ELSE node

process_item_trait(p, mode, node) ==
    IF recursive_asyncness_removal_get(p)
    THEN remove_asyncness_on_trait(node, mode)
    ELSE node

process_item_fn_any_flag(p, mode, node) ==
    remove_asyncness_on_fn(node, mode)

process_item_fn(p, mode, node) ==
    IF recursive_asyncness_removal_get(p)
    THEN remove_asyncness_on_fn(node, mode)
    ELSE node

-----------------------------------------------------------------------------
(* Macro invocations.  A macro is [path, tokens]; its tokens are a sequence *)
(* of token trees: an expression, a comma, or `=>` (any token that does not *)
(* belong to an expression list).                                          *)

STANDARD_MACROS == { "dbg", "print", "println", "assert", "assert_eq", "assert_ne" }

standard_macros(p) == STANDARD_MACROS

TokExpr(e) == [kind |-> "expr", expr |-> e]
TokComma == [kind |-> "comma", expr |-> EPath("")]
TokFatArrow == [kind |-> "fat_arrow", expr |-> EPath("")]

Macro(path, tokens) == [path |-> path, tokens |-> tokens]

RECURSIVE parse_punctuated_list(_, _, _)
\* syn::parse2::<PunctuatedList>: expressions separated by commas, an optional
\* trailing comma; returns [ok, list, trailing]
parse_punctuated_list(tokens, i, acc) ==
    IF i > Len(tokens) THEN [ok |-> TRUE, list |-> acc, trailing |-> Len(tokens) > 0]
    ELSE IF tokens[i].kind # "expr" THEN [ok |-> FALSE, list |-> <<>>, trailing |-> FALSE]
    ELSE IF i = Len(tokens)
         THEN [ok |-> TRUE, list |-> Append(acc, tokens[i].expr), trailing |-> FALSE]
    ELSE IF tokens[i + 1].kind # "comma"
         THEN [ok |-> FALSE, list |-> <<>>, trailing |-> FALSE]
    ELSE parse_punctuated_list(tokens, i + 2, Append(acc, tokens[i].expr))

RECURSIVE list_into_token_stream(_, _)
\* Punctuated::into_token_stream: each expression followed by its comma, the
\* last one only when the list had a trailing comma
list_into_token_stream(list, trailing) ==
    IF Len(list) = 0 THEN <<>>
    ELSE IF Len(list) = 1
         THEN (IF trailing THEN <<TokExpr(list[1]), TokComma>> ELSE <<TokExpr(list[1])>>)
    ELSE <<TokExpr(list[1]), TokComma>> \o list_into_token_stream(Tail(list), trailing)

RECURSIVE visit_expr_mut(_, _)
\* the traversal of one expression: the expressions inside it, then
\* process_expr on the expression itself; returns [panic, node]
visit_expr_mut(mode, node) ==
    LET base == IF node.kind = "await" THEN visit_expr_mut(mode, node.base[1])
                ELSE [panic |-> FALSE, node |-> node]
        sub == [i \in 1..Len(node.stmts) |->
                    IF node.stmts[i].kind = "item"
                    THEN [panic |-> FALSE, node |-> node.stmts[i].expr]
                    ELSE visit_expr_mut(mode, node.stmts[i].expr)]
        inner == [node EXCEPT
                    !.base = IF node.kind = "await" THEN <<base.node>> ELSE @,
                    !.stmts = [i \in 1..Len(node.stmts) |->
                                  [node.stmts[i] EXCEPT !.expr = sub[i].node]]]
    IN  IF base.panic \/ \E i \in 1..Len(sub) : sub[i].panic
        THEN [panic |-> TRUE, node |-> node]
        ELSE process_expr(mode, inner)

visit_macro_args_first_only(mode, list) ==
    LET r == [i \in 1..Len(list) |->
                IF i = 1 THEN visit_expr_mut(mode, list[i])
                ELSE [panic |-> FALSE, node |-> list[i]]]
    IN  [panic |-> \E i \in 1..Len(list) : r[i].panic,
         list |-> [i \in 1..Len(list) |-> r[i].node]]

\* the loop `for arg in &mut args.list { self.visit_expr_mut(arg) }`
visit_macro_args(mode, list) ==
    LET r == [i \in 1..Len(list) |-> visit_expr_mut(mode, list[i])]
    IN  [panic |-> \E i \in 1..Len(list) : r[i].panic,
         list |-> [i \in 1..Len(list) |-> r[i].node]]

\* returns [panic, result, node]
process_macro(p, mode, node) ==
    IF Len(node.path) = 1 /\ node.path[1] \in standard_macros(p) THEN
        LET args == parse_punctuated_list(node.tokens, 1, <<>>)
        IN  IF ~args.ok
            THEN [panic |-> FALSE, result |-> Err(node.tokens, "expected expression list"),
                  node |-> node]
            ELSE LET v == visit_macro_args(mode, args.list)
                 IN  IF v.panic THEN [panic |-> TRUE, result |-> Ok, node |-> node]
                     ELSE [panic |-> FALSE, result |-> Ok,
                           node |-> [node EXCEPT !.tokens =
                                        list_into_token_stream(v.list, args.trailing)]]
    ELSE [panic |-> FALSE, result |-> Ok, node |-> node]

-----------------------------------------------------------------------------

(* Inputs of process_expr and of the item handlers *)

LeafExprs == { EPath("a"), EPath("b") }
Operands == LeafExprs \cup { EAwait(EPath("a")) }
TailStmts == { Stmt("expr", e) : e \in Operands }
InnerStmts ==
    { Stmt(k, e) : k \in {"semi", "local"}, e \in Operands }
        \cup { Stmt("item", EPath("f")) }

\* statement lists of a block: a tail expression may only come last
StmtLists ==
    { ss \in SeqsUpTo(InnerStmts \cup TailStmts, MaxStmts) :
        \A i \in 1..Len(ss) : ss[i] \in TailStmts => i = Len(ss) }

ExprAttrs == { <<>>, <<Attr(<<"marker">>, <<>>)>> }

AsyncBlocks == { EAsync(a, ss) : a \in ExprAttrs, ss \in StmtLists }

ExprInputs ==
    LeafExprs
        \cup { EAwait(e) : e \in Operands }
        \cup { EAwait(EAsync(<<>>, <<Stmt("expr", EPath("a"))>>)) }
        \cup AsyncBlocks
        \cup { EBlock(<<>>, <<Stmt("semi", EAwait(EPath("a")))>>, None) }

\* arguments written inside a macro invocation
MacroArgExprs ==
    { EPath("a"), EPath("b"), EAwait(EPath("a")),
      EBlock(<<>>, <<Stmt("semi", EAwait(EPath("a")))>>, None),
      EAsync(<<>>, <<Stmt("semi", EPath("a"))>>) }

MacroTokens ==
    { list_into_token_stream(l, t) :
        l \in SeqsUpTo(MacroArgExprs, MaxMacroArgs), t \in BOOLEAN }
        \cup { <<TokFatArrow>>,
               <<TokComma>>,
               <<TokExpr(EPath("a")), TokExpr(EAwait(EPath("a")))>>,
               <<TokExpr(EAwait(EPath("a"))), TokFatArrow, TokExpr(EPath("b"))>> }

MacroPaths ==
    { <<m>> : m \in STANDARD_MACROS }
        \cup { <<"format">>, <<"vec">>, <<"std", "println">> }

Members == { Member("method", TRUE), Member("method", FALSE), Member("const", FALSE) }
MemberLists == SeqsUpTo(Members, MaxItems)

SendInputs == { None, Some(TRUE), Some(FALSE) }

-----------------------------------------------------------------------------
(* Spec: the visitor applied to expressions and to items *)

Init ==
    /\ convert_mode \in ConvertMode
    /\ \E r \in BOOLEAN, sd \in SendInputs :
          params = [DefaultParams EXCEPT !.recursive_asyncness_removal = r,
                                         !.send = sd]
    /\ InitCommon

ProcessExpr ==
    /\ Idle
    /\ \E node \in ExprInputs :
          LET r == process_expr(convert_mode, node)
          IN  /\ op' = "process_expr"
              /\ arg' = node
              /\ panicked' = r.panic
              /\ res' = IF r.panic THEN <<>> ELSE r.node
    /\ UNCHANGED <<convert_mode, params, generics, frames>>

ProcessItemFn ==
    /\ Idle
    /\ \E a \in BOOLEAN :
          /\ op' = "process_item_fn"
          /\ arg' = ItemFn(a)
          /\ res' = process_item_fn(params, convert_mode, ItemFn(a))
    /\ UNCHANGED <<convert_mode, params, generics, panicked, frames>>

ProcessItemTrait ==
    /\ Idle
    /\ \E ms \in MemberLists :
          /\ op' = "process_item_trait"
          /\ arg' = ItemTrait(ms)
          /\ res' = process_item_trait(params, convert_mode, ItemTrait(ms))
    /\ UNCHANGED <<convert_mode, params, generics, panicked, frames>>

ProcessItemImpl ==
    /\ Idle
    /\ \E ms \in MemberLists, a \in ExprAttrs :
          /\ op' = "process_item_impl"
          /\ arg' = ItemImpl(a, ms)
          /\ res' = process_item_impl(params, convert_mode, ItemImpl(a, ms))
    /\ UNCHANGED <<convert_mode, params, generics, panicked, frames>>

ProcessMacro ==
    /\ Idle
    /\ \E path \in MacroPaths, tokens \in MacroTokens :
          LET r == process_macro(params, convert_mode, Macro(path, tokens))
          IN  /\ op' = "process_macro"
              /\ arg' = Macro(path, tokens)
              /\ panicked' = r.panic
              /\ res' = IF r.panic THEN <<>>
                        ELSE [result |-> r.result, node |-> r.node]
    /\ UNCHANGED <<convert_mode, params, generics, frames>>

Next ==
    \/ ProcessExpr
    \/ ProcessItemFn
    \/ ProcessItemTrait
    \/ ProcessItemImpl
    \/ ProcessMacro
    \/ Return

Spec == Init /\ [][Next]_vars

-----------------------------------------------------------------------------
(* C2, C3, C4 *)

\* C2: under convert-to-blocking process_expr replaces e.await by its operand
\* e; under convert-to-suspending the await expression is left unchanged.
C2_AwaitUnwrapped ==
    (op = "process_expr" /\ arg.kind = "await") =>
        /\ ~panicked
        /\ convert_mode = IntoSync => res = arg.base[1]
        /\ convert_mode = IntoAsync => res = arg

\* C2 witness: a.await was handled under convert-to-blocking and a is left
C2_Witness ==
    /\ op = "process_expr"
    /\ convert_mode = IntoSync
    /\ arg = EAwait(EPath("a"))
    /\ res = EPath("a")

\* C3 (as claimed): under convert-to-blocking an async block with exactly one
\* statement is replaced by that statement as an expression, without braces,
\* and an async block with any other number of statements by a plain block
\* with the same statements; under convert-to-suspending it is unchanged.
C3_AsyncBlockCollapsed ==
    (op = "process_expr" /\ arg.kind = "async") =>
        /\ ~panicked
        /\ (convert_mode = IntoSync /\ Len(arg.stmts) = 1) =>
                res = arg.stmts[1].expr
        /\ (convert_mode = IntoSync /\ Len(arg.stmts) # 1) =>
                /\ res.kind = "block"
                /\ res.label = None
                /\ res.stmts = arg.stmts
        /\ convert_mode = IntoAsync => res = arg

\* C3, the part the code does satisfy: a single tail expression is unwrapped,
\* other statement counts give a plain block, suspending mode changes nothing
C3_TailExpressionCollapsed ==
    (op = "process_expr" /\ arg.kind = "async") =>
        /\ (convert_mode = IntoSync /\ Len(arg.stmts) = 1
                /\ arg.stmts[1].kind = "expr") =>
                /\ ~panicked
                /\ res = arg.stmts[1].expr
        /\ (convert_mode = IntoSync /\ Len(arg.stmts) # 1) =>
                /\ ~panicked
                /\ res = EBlock(arg.attrs, arg.stmts, None)
        /\ convert_mode = IntoAsync => (~panicked /\ res = arg)

\* C3: the single statement `a;` of an async block made process_expr panic
C3_PanicReached ==
    /\ op = "process_expr"
    /\ convert_mode = IntoSync
    /\ arg = EAsync(<<>>, <<Stmt("semi", EPath("a"))>>)
    /\ panicked

\* the async marker a visited declaration ends with, given the one it had
ExpectedAsyncness(orig) ==
    IF convert_mode = IntoSync /\ params.recursive_asyncness_removal
    THEN FALSE ELSE orig

MethodsAsExpected(before, after) ==
    /\ Len(after) = Len(before)
    /\ \A i \in 1..Len(before) :
          IF before[i].kind = "method"
          THEN after[i] = [before[i] EXCEPT
                              !.asyncness = ExpectedAsyncness(before[i].asyncness)]
          ELSE after[i] = before[i]

\* C4: the async marker of a function item, of each method of a trait and of
\* each method of an impl block is removed iff the mode is convert-to-blocking
\* and recursive asyncness removal is enabled; otherwise it is as it was.
C4_AsyncnessRemoval ==
    /\ op = "process_item_fn" =>
          res.asyncness = ExpectedAsyncness(arg.asyncness)
    /\ op = "process_item_trait" => MethodsAsExpected(arg.items, res.items)
    /\ op = "process_item_impl" => MethodsAsExpected(arg.items, res.items)

\* C4 witness: an async fn lost its marker (blocking mode, flag enabled)
C4_Witness ==
    /\ op = "process_item_fn"
    /\ convert_mode = IntoSync
    /\ params.recursive_asyncness_removal
    /\ arg.asyncness
    /\ ~res.asyncness

-----------------------------------------------------------------------------
(* C14 *)

\* the expressions among the tokens of a macro, in order
ArgsOf(tokens) ==
    LET es == SelectSeq(tokens, LAMBDA t : t.kind = "expr")
    IN  [i \in 1..Len(es) |-> es[i].expr]

\* the tokens are a comma-separated expression list (a trailing comma allowed)
IsExprList(tokens) ==
    \A i \in 1..Len(tokens) :
        tokens[i].kind = IF i % 2 = 1 THEN "expr" ELSE "comma"

RECURSIVE AwaitsUnwrapped(_)
\* the expression with every await in it replaced by its operand
AwaitsUnwrapped(e) ==
    IF e.kind = "await" THEN AwaitsUnwrapped(e.base[1])
    ELSE [e EXCEPT !.stmts = [i \in 1..Len(e.stmts) |->
                                 IF e.stmts[i].kind = "item" THEN e.stmts[i]
                                 ELSE [e.stmts[i] EXCEPT !.expr = AwaitsUnwrapped(@)]]]

IsStandardMacro(m) ==
    \E n \in {"dbg", "print", "println", "assert", "assert_eq", "assert_ne"} :
        m.path = <<n>>

\* C14: the arguments of a macro invocation named dbg, print, println, assert,
\* assert_eq or assert_ne are parsed as a comma-separated expression list and
\* every element is rewritten by the visitor (an await in an argument is
\* unwrapped under convert-to-blocking), number and order of the arguments
\* preserved; the tokens of every other macro invocation are left unchanged.
C14_StandardMacroArgs ==
    (op = "process_macro" /\ ~panicked) =>
        /\ (IsStandardMacro(arg) /\ IsExprList(arg.tokens)) =>
              LET ins == ArgsOf(arg.tokens)
                  outs == ArgsOf(res.node.tokens)
              IN  /\ res.result.ok
                  /\ res.node.path = arg.path
                  /\ IsExprList(res.node.tokens)
                  /\ Len(res.node.tokens) = Len(arg.tokens)
                  /\ Len(outs) = Len(ins)
                  /\ \A i \in 1..Len(ins) :
                        outs[i] = IF convert_mode = IntoSync
                                  THEN AwaitsUnwrapped(ins[i]) ELSE ins[i]
        /\ ~IsStandardMacro(arg) => (res.result.ok /\ res.node = arg)

\* C14 witness: println!(b, a.await) became println!(b, a) under
\* convert-to-blocking
C14_Witness ==
    /\ op = "process_macro"
    /\ convert_mode = IntoSync
    /\ arg = Macro(<<"println">>,
                   <<TokExpr(EPath("b")), TokComma, TokExpr(EAwait(EPath("a")))>>)
    /\ res.node = Macro(<<"println">>,
                        <<TokExpr(EPath("b")), TokComma, TokExpr(EPath("a"))>>)

\* C14 witness: format!(a.await) kept its tokens under convert-to-blocking
C14_WitnessOtherMacro ==
    /\ op = "process_macro"
    /\ convert_mode = IntoSync
    /\ arg = Macro(<<"format">>, <<TokExpr(EAwait(EPath("a")))>>)
    /\ res.node = arg

-----------------------------------------------------------------------------

(* C13, C18 *)

\* the adapter attribute of a send marker
AdapterAttr(send) ==
    IF send THEN Attr(<<"async_trait", "async_trait">>, <<>>)
    ELSE Attr(<<"async_trait", "async_trait">>, <<NmPath(<<"?Send">>)>>)

IsAdapterAttr(a) == a.path = <<"async_trait", "async_trait">>

\* the adapter attributes of a list, in order
AdaptersOf(attrs) == SelectSeq(attrs, IsAdapterAttr)

\* C13: for every impl block converted under convert-to-suspending with a
\* configured send marker, whatever the other parameters are, exactly one
\* adapter attribute is added: async_trait::async_trait for Send / true,
\* async_trait::async_trait(?Send) for ?Send / false; none is added when the
\* marker is absent or the mode is convert-to-blocking.
C13_AdapterAttribute ==
    op = "process_item_impl" =>
        /\ SelectSeq(res.attrs, LAMBDA a : ~IsAdapterAttr(a)) = arg.attrs
        /\ IF convert_mode = IntoAsync /\ IsSome(params.send)
           THEN AdaptersOf(res.attrs) = <<AdapterAttr(Unwrap(params.send))>>
           ELSE AdaptersOf(res.attrs) = <<>>

\* the case C13 fails on: suspending mode, a send marker, recursive asyncness
\* removal disabled, and the block is left without an adapter attribute
C13_NoAdapterWhenFlagDisabled ==
    /\ op = "process_item_impl"
    /\ convert_mode = IntoAsync
    /\ IsSome(params.send)
    /\ ~params.recursive_asyncness_removal
    /\ res = arg

\* an adapter attribute was added to the block by the handler
AdapterAdded == op = "process_item_impl" /\ Len(res.attrs) = Len(arg.attrs) + 1

\* C18 (as stated): the adapter attribute added to an impl block under
\* convert-to-suspending is the first element of the block's attribute list,
\* ahead of every attribute the block already had.
C18_AdapterPrepended ==
    AdapterAdded =>
        /\ IsAdapterAttr(res.attrs[1])
        /\ Tail(res.attrs) = arg.attrs

\* C18 (amended): the adapter attribute added to an impl block under
\* convert-to-suspending is appended: it is the last element of the block's
\* attribute list, after every attribute the block already had.
C18_AdapterAppended ==
    AdapterAdded =>
        /\ IsAdapterAttr(res.attrs[Len(res.attrs)])
        /\ SubSeq(res.attrs, 1, Len(arg.attrs)) = arg.attrs

\* C18 witness: a block carrying #[marker] received the adapter after it
C18_Witness ==
    /\ AdapterAdded
    /\ convert_mode = IntoAsync
    /\ arg.attrs = <<Attr(<<"marker">>, <<>>)>>
    /\ res.attrs = <<Attr(<<"marker">>, <<>>), AdapterAttr(Unwrap(params.send))>>

-----------------------------------------------------------------------------

(* Identifier rules (IdentRecord) and renaming.                            *)
(* A rule is [fn_mode, use_mode, keep, idents]: snake/fn/mod style, the    *)
(* use flag, the keep flag and the per-variant overrides, a map from       *)
(* variant key to Some(name), or to None for a variant listed without a    *)
(* name (the identifier is then not renamed in that variant).              *)

IdentRecord(f, u, k, o) == [fn_mode |-> f, use_mode |-> u, keep |-> k, idents |-> o]

\* the default suffix of a rule's style in a conversion mode
ident_suffix(ir, mode) ==
    IF ir.fn_mode
    THEN (IF mode = IntoSync THEN "_sync" ELSE "_async")
    ELSE (IF mode = IntoSync THEN "Sync" ELSE "Async")

\* IdentRecord::ident_add_suffix: keep, then override, then suffix
ident_add_suffix(ir, ident, mode, key) ==
    IF ir.keep THEN ident
    ELSE IF IsSome(key) /\ Unwrap(key) \in DOMAIN ir.idents
         THEN (IF IsSome(ir.idents[Unwrap(key)])
               THEN Unwrap(ir.idents[Unwrap(key)])
               ELSE ident)
         ELSE ident \o ident_suffix(ir, mode)

IdentModeUse == "Use"
IdentModeOther == "Other"

process_ident_without_key(p, mode, ident, imode) ==
    IF imode = IdentModeUse THEN ident
    ELSE IF IsSome(idents_get(p, ident))
         THEN ident_add_suffix(Unwrap(idents_get(p, ident)), ident, mode, None)
         ELSE ident

process_ident(p, mode, ident, imode) ==
    IF imode = IdentModeUse THEN ident
    ELSE IF IsSome(idents_get(p, ident))
         THEN ident_add_suffix(Unwrap(idents_get(p, ident)), ident, mode, key_get(p))
         ELSE ident

process_type_param(p, mode, ident) ==
    IF IsSome(idents_get(p, ident))
    THEN ident_add_suffix(Unwrap(idents_get(p, ident)), ident, mode, key_get(p))
    ELSE ident

\* A use tree node is [kind, ident, rename]: "path" (ident::...), "name"
\* (a leaf), "rename" (ident as rename), "glob" (*)
UseTree(k, i, r) == [kind |-> k, ident |-> i, rename |-> r]

process_use_tree_path_always(p, mode, node) ==
    IF node.kind \in {"path", "name"} /\ IsSome(idents_get(p, node.ident)) THEN
        LET ir == Unwrap(idents_get(p, node.ident))
            new == ident_add_suffix(ir, node.ident, mode, key_get(p))
        IN  IF node.kind = "name" /\ ir.use_mode
            THEN UseTree("rename", node.ident, new)
            ELSE [node EXCEPT !.ident = new]
    ELSE node

process_use_tree(p, mode, node) ==
    IF node.kind = "path" THEN
        IF IsSome(idents_get(p, node.ident)) THEN
            LET ir == Unwrap(idents_get(p, node.ident))
            IN  IF ~ir.use_mode
                THEN [node EXCEPT !.ident =
                          ident_add_suffix(ir, node.ident, mode, key_get(p))]
                ELSE node
        ELSE node
    ELSE IF node.kind = "name" THEN
        IF IsSome(idents_get(p, node.ident)) THEN
            LET ir == Unwrap(idents_get(p, node.ident))
            IN  IF ir.use_mode
                THEN UseTree("rename", node.ident,
                             ident_add_suffix(ir, node.ident, mode, key_get(p)))
                ELSE [node EXCEPT !.ident =
                          ident_add_suffix(ir, node.ident, mode, key_get(p))]
        ELSE node
    ELSE node

-----------------------------------------------------------------------------
(* SpecIdents: the visitor applied to identifiers and use trees *)

OverrideInputs ==
    { EmptyMap,
      [k \in {"sync"} |-> Some("alt_name")],
      [k \in {"sync"} |-> None],
      [k \in {"sync", "async"} |-> IF k = "sync" THEN Some("alt_name")
                                   ELSE Some("async_alt")] }

RuleInputs ==
    { IdentRecord(f, u, k, o) : f \in BOOLEAN, u \in BOOLEAN, k \in BOOLEAN,
                                o \in OverrideInputs }

\* the rule table: no rule at all, or one rule, for the name "Foo"
IdentsInputs == { EmptyMap } \cup { [n \in {"Foo"} |-> r] : r \in RuleInputs }

\* the variants a visitor is built for: conversion mode and variant key
VariantInputs ==
    { <<IntoSync, Some("sync")>>, <<IntoAsync, Some("async")>>,
      <<IntoSync, Some("foo")>>, <<IntoAsync, Some("bar")>>,
      <<IntoSync, None>>, <<IntoAsync, None>> }

IdentInputs == { "Foo", "Bar" }

UseTreeInputs ==
    { UseTree(k, i, "") : k \in {"path", "name"}, i \in IdentInputs }
        \cup { UseTree("rename", i, "Baz") : i \in IdentInputs }
        \cup { UseTree("glob", "", "") }

InitIdents ==
    /\ \E v \in VariantInputs, ids \in IdentsInputs :
          /\ convert_mode = v[1]
          /\ params = [DefaultParams EXCEPT !.key = v[2], !.idents = ids]
    /\ InitCommon

ProcessIdent ==
    /\ Idle
    /\ \E ident \in IdentInputs, imode \in {IdentModeUse, IdentModeOther} :
          /\ op' = "process_ident"
          /\ arg' = [ident |-> ident, mode |-> imode]
          /\ res' = process_ident(params, convert_mode, ident, imode)
    /\ UNCHANGED <<convert_mode, params, generics, panicked, frames>>

ProcessTypeParam ==
    /\ Idle
    /\ \E ident \in IdentInputs :
          /\ op' = "process_type_param"
          /\ arg' = ident
          /\ res' = process_type_param(params, convert_mode, ident)
    /\ UNCHANGED <<convert_mode, params, generics, panicked, frames>>

ProcessUseTree ==
    /\ Idle
    /\ \E node \in UseTreeInputs :
          /\ op' = "process_use_tree"
          /\ arg' = node
          /\ res' = process_use_tree(params, convert_mode, node)
    /\ UNCHANGED <<convert_mode, params, generics, panicked, frames>>

NextIdents ==
    \/ ProcessIdent
    \/ ProcessTypeParam
    \/ ProcessUseTree
    \/ Return

SpecIdents == InitIdents /\ [][NextIdents]_vars

-----------------------------------------------------------------------------
(* C5, C6 *)

HasRule(n) == n \in DOMAIN params.idents
RuleOf(n) == params.idents[n]

\* the variant's override of a rule, if the rule names one for the current key
HasOverrideName(ir) ==
    /\ IsSome(params.key)
    /\ Unwrap(params.key) \in DOMAIN ir.idents
    /\ IsSome(ir.idents[Unwrap(params.key)])

OverrideName(ir) == Unwrap(ir.idents[Unwrap(params.key)])

\* listed for the current key without a name: not renamed in this variant
HasBareOverride(ir) ==
    /\ IsSome(params.key)
    /\ Unwrap(params.key) \in DOMAIN ir.idents
    /\ ~IsSome(ir.idents[Unwrap(params.key)])

SuffixedName(ir, n) ==
    IF ir.fn_mode
    THEN (IF convert_mode = IntoSync THEN n \o "_sync" ELSE n \o "_async")
    ELSE (IF convert_mode = IntoSync THEN n \o "Sync" ELSE n \o "Async")

\* the name the resolution order gives: keep, then override, then suffix
ResolvedName(n) ==
    LET ir == RuleOf(n)
    IN  IF ir.keep THEN n
        ELSE IF HasOverrideName(ir) THEN OverrideName(ir)
        ELSE IF HasBareOverride(ir) THEN n
        ELSE SuffixedName(ir, n)

\* C5: the name emitted for an identifier with a rule is the base name when
\* the rule is flagged keep, else the current variant's override name when one
\* is configured, and only otherwise the base name with the style's suffix.
C5_NameResolutionOrder ==
    /\ (op = "process_ident" /\ arg.mode # IdentModeUse /\ HasRule(arg.ident)) =>
            res = ResolvedName(arg.ident)
    /\ (op = "process_type_param" /\ HasRule(arg)) => res = ResolvedName(arg)

\* C5 witness: a rule with both a style suffix and an override for the current
\* key was applied, and the override was emitted
C5_Witness ==
    /\ op = "process_ident"
    /\ arg = [ident |-> "Foo", mode |-> IdentModeOther]
    /\ HasRule("Foo")
    /\ ~RuleOf("Foo").keep
    /\ RuleOf("Foo").fn_mode
    /\ params.key = Some("sync")
    /\ HasOverrideName(RuleOf("Foo"))
    /\ res = "alt_name"

\* C6: in a use declaration an identifier whose rule has the use flag is never
\* replaced in place (a leaf becomes `name as new_name`, a path segment stays),
\* one whose rule lacks the flag is replaced in place as leaf and as segment,
\* and an identifier with no rule is unchanged.
C6_UseTreeRenaming ==
    /\ (op = "process_use_tree" /\ arg.kind \in {"path", "name"}) =>
          IF ~HasRule(arg.ident) THEN res = arg
          ELSE IF RuleOf(arg.ident).use_mode THEN
               IF arg.kind = "name"
               THEN res = UseTree("rename", arg.ident, ResolvedName(arg.ident))
               ELSE res = arg
          ELSE res = UseTree(arg.kind, ResolvedName(arg.ident), "")
    /\ (op = "process_ident" /\ arg.mode = IdentModeUse) => res = arg.ident

\* C6 witness: a path segment with a use-flagged rule that would otherwise be
\* renamed was visited and left as it was
C6_Witness ==
    /\ op = "process_use_tree"
    /\ arg = UseTree("path", "Foo", "")
    /\ HasRule("Foo")
    /\ RuleOf("Foo").use_mode
    /\ ResolvedName("Foo") # "Foo"
    /\ res = arg

\* C6 witness of the leaf case: Foo became `Foo as FooSync`
C6_WitnessLeaf ==
    /\ op = "process_use_tree"
    /\ arg = UseTree("name", "Foo", "")
    /\ res = UseTree("rename", "Foo", "FooSync")

-----------------------------------------------------------------------------
(* Paths, types, generic parameters and where-clauses.                     *)
(*   PathSegment  [ident, arguments], arguments = [kind, args]             *)
(*   Type         [kind, segments]: "path" with its segments, or "tuple"   *)
(*                (the unit type) / "slice" with the element type's path   *)
(*   GenericArgument  [kind, name, ty]: "binding" (name = ty) or "type"    *)
(*   TypeParamBound   [kind, path]: "trait" with its path, or "lifetime"   *)
(*   GenericParam     [kind, ident, bounds]: "type", "lifetime", "const"   *)
(*   WherePredicate   [kind, bounded_ty, bounds]: "type" or "lifetime"     *)

NoArgs == [kind |-> "none", args |-> <<>>]
Angle(args) == [kind |-> "angle", args |-> args]
Seg(i, a) == [ident |-> i, arguments |-> a]
TPath(segs) == [kind |-> "path", segments |-> segs]
TUnit == [kind |-> "tuple", segments |-> <<>>]
TSlice(segs) == [kind |-> "slice", segments |-> segs]
GBinding(n, ty) == [kind |-> "binding", name |-> n, ty |-> ty]
GType(ty) == [kind |-> "type", name |-> "", ty |-> ty]
TraitBound(path) == [kind |-> "trait", path |-> path]
LifetimeBound == [kind |-> "lifetime", path |-> <<>>]
GenericParam(k, i, b) == [kind |-> k, ident |-> i, bounds |-> b]
WherePredicate(k, ty, b) == [kind |-> k, bounded_ty |-> ty, bounds |-> b]

\* syn::Item: a function with its generics, or any other item
Item(k, ps, w) == [kind |-> k, params |-> ps, where_clause |-> w]

\* returns [panic, ps]: ps is the Option<PathSegment> found
search_future_trait_bound(bound) ==
    IF bound.kind = "trait" THEN
        LET segment == bound.path[Len(bound.path)]
        IN  IF segment.ident = "Future" /\ segment.arguments.kind = "angle" THEN
                IF Len(segment.arguments.args) = 0
                THEN [panic |-> TRUE, ps |-> None]     \* args.args[0] out of bounds
                ELSE LET binding == segment.arguments.args[1]
                     IN  IF binding.kind = "binding" /\ binding.ty.kind = "path"
                         THEN [panic |-> FALSE, ps |-> Some(binding.ty.segments[1])]
                         ELSE [panic |-> FALSE, ps |-> None]
            ELSE [panic |-> FALSE, ps |-> None]
    ELSE [panic |-> FALSE, ps |-> None]

\* HashMap::insert
map_insert(m, k, v) == [x \in (DOMAIN m) \cup {k} |-> IF x = k THEN v ELSE m[x]]

RECURSIVE insert_bounds(_, _, _, _)
\* the loop over the bounds of one parameter or predicate, from bound i on
insert_bounds(st, name, bounds, i) ==
    IF st.panic \/ i > Len(bounds) THEN st
    ELSE LET r == search_future_trait_bound(bounds[i])
         IN  IF r.panic THEN [st EXCEPT !.panic = TRUE]
             ELSE IF IsSome(r.ps)
                  THEN insert_bounds([st EXCEPT !.gens = map_insert(@, name, Unwrap(r.ps))],
                                     name, bounds, i + 1)
                  ELSE insert_bounds(st, name, bounds, i + 1)

RECURSIVE collect_params(_, _, _)
\* the loop over the generic parameters, from parameter i on
collect_params(st, ps, i) ==
    IF st.panic \/ i > Len(ps) THEN st
    ELSE IF ps[i].kind = "type"
         THEN collect_params(insert_bounds(st, ps[i].ident, ps[i].bounds, 1), ps, i + 1)
         ELSE collect_params(st, ps, i + 1)

RECURSIVE collect_predicates(_, _, _)
\* the loop over the where-clause predicates, from predicate i on
collect_predicates(st, preds, i) ==
    IF st.panic \/ i > Len(preds) THEN st
    ELSE IF preds[i].kind = "type" THEN
            IF preds[i].bounded_ty.kind = "path"
            THEN collect_predicates(
                     insert_bounds(st, preds[i].bounded_ty.segments[1].ident,
                                   preds[i].bounds, 1),
                     preds, i + 1)
            ELSE [st EXCEPT !.panic = TRUE]            \* panic!("Please submit an issue")
         ELSE collect_predicates(st, preds, i + 1)

\* the bindings of one function item: [panic, gens]
collect_gens(item) ==
    LET st0 == [panic |-> FALSE, gens |-> EmptyMap]
        st1 == collect_params(st0, item.params, 1)
    IN  IF IsSome(item.where_clause)
        THEN collect_predicates(st1, Unwrap(item.where_clause), 1)
        ELSE st1

RECURSIVE generics_get_from(_, _, _)
generics_get_from(gs, key, i) ==
    IF i > Len(gs) THEN None
    ELSE IF key \in DOMAIN gs[i] THEN Some(gs[i][key])
    ELSE generics_get_from(gs, key, i + 1)

\* AsyncAwaitVisitor::generics_get: the first map of the stack, from its
\* bottom (the outermost function), that has the key
generics_get(gs, key) == generics_get_from(gs, key, 1)

param_retained(gs, param) ==
    ~(param.kind = "type" /\ IsSome(generics_get(gs, param.ident)))

predicate_retained(gs, pred) ==
    ~(pred.kind = "type" /\ pred.bounded_ty.kind = "path"
        /\ IsSome(generics_get(gs, pred.bounded_ty.segments[1].ident)))

process_item_push_if_bound(mode, gs, node) ==
    IF mode = IntoSync /\ node.kind = "fn" THEN
        LET c == collect_gens(node)
            pushed == IF DOMAIN c.gens = {} THEN gs ELSE Append(gs, c.gens)
        IN  IF c.panic THEN [panic |-> TRUE, generics |-> gs, node |-> node]
            ELSE [panic |-> FALSE,
                  generics |-> pushed,
                  node |-> [node EXCEPT
                      !.params = SelectSeq(@, LAMBDA q : param_retained(pushed, q)),
                      !.where_clause =
                          IF IsSome(@)
                          THEN Some(SelectSeq(Unwrap(@),
                                        LAMBDA q : predicate_retained(pushed, q)))
                          ELSE @]]
    ELSE [panic |-> FALSE, generics |-> gs, node |-> node]

process_item_any_mode(mode, gs, node) ==
    IF node.kind = "fn" THEN
        LET c == collect_gens(node)
            pushed == Append(gs, c.gens)
        IN  IF c.panic THEN [panic |-> TRUE, generics |-> gs, node |-> node]
            ELSE [panic |-> FALSE,
                  generics |-> pushed,
                  node |-> [node EXCEPT
                      !.params = SelectSeq(@, LAMBDA q : param_retained(pushed, q)),
                      !.where_clause =
                          IF IsSome(@)
                          THEN Some(SelectSeq(Unwrap(@),
                                        LAMBDA q : predicate_retained(pushed, q)))
                          ELSE @]]
    ELSE [panic |-> FALSE, generics |-> gs, node |-> node]

\* returns [panic, generics, node]
process_item(mode, gs, node) ==
    IF mode = IntoSync /\ node.kind = "fn" THEN
        LET c == collect_gens(node)
            pushed == Append(gs, c.gens)
        IN  IF c.panic THEN [panic |-> TRUE, generics |-> gs, node |-> node]
            ELSE [panic |-> FALSE,
                  generics |-> pushed,
                  node |-> [node EXCEPT
                      !.params = SelectSeq(@, LAMBDA q : param_retained(pushed, q)),
                      !.where_clause =
                          IF IsSome(@)
                          THEN Some(SelectSeq(Unwrap(@),
                                        LAMBDA q : predicate_retained(pushed, q)))
                          ELSE @]]
    ELSE [panic |-> FALSE, generics |-> gs, node |-> node]

after_process_item_keeping(mode, gs, node) == gs

\* returns the generics stack after the item
after_process_item(mode, gs, node) ==
    IF mode = IntoSync /\ node.kind = "fn" /\ Len(gs) > 0
    THEN SubSeq(gs, 1, Len(gs) - 1)
    ELSE gs

process_path_segment(gs, node) ==
    IF IsSome(generics_get(gs, node.ident))
    THEN Unwrap(generics_get(gs, node.ident))
    ELSE node

-----------------------------------------------------------------------------
(* Inputs of the traversal of nested items *)

TX == TPath(<<Seg("X", NoArgs)>>)
TIoError == TPath(<<Seg("std", NoArgs), Seg("io", NoArgs), Seg("Error", NoArgs)>>)
TVecU8 == TPath(<<Seg("Vec", Angle(<<GType(TPath(<<Seg("u8", NoArgs)>>))>>))>>)

OutputTypes == { TX, TIoError, TVecU8, TUnit }

FutureBound(ty) == TraitBound(<<Seg("Future", Angle(<<GBinding("Output", ty)>>))>>)
FutureBoundNoArgs == TraitBound(<<Seg("Future", Angle(<<>>))>>)
CloneBound == TraitBound(<<Seg("Clone", NoArgs)>>)

TypeNames == { "T", "U" }

ParamInputs ==
    { GenericParam("type", "T", <<FutureBound(ty)>>) : ty \in OutputTypes }
        \cup { GenericParam("type", "T", <<CloneBound>>),
               GenericParam("type", "U", <<CloneBound>>),
               GenericParam("type", "T", <<FutureBoundNoArgs>>),
               GenericParam("lifetime", "'a", <<LifetimeBound>>) }

\* generic parameter lists: every parameter has its own name
ParamLists ==
    { ps \in SeqsUpTo(ParamInputs, MaxParams) :
        \A i, j \in 1..Len(ps) : i # j => ps[i].ident # ps[j].ident }

PredT(b) == WherePredicate("type", TPath(<<Seg("T", NoArgs)>>), <<b>>)

WhereInputs ==
    { Some(<<>>),
      Some(<<PredT(FutureBound(TX))>>),
      Some(<<PredT(FutureBound(TVecU8))>>),
      Some(<<PredT(CloneBound)>>),
      Some(<<WherePredicate("type", TPath(<<Seg("U", NoArgs)>>), <<CloneBound>>),
             PredT(CloneBound)>>),
      Some(<<WherePredicate("type", TPath(<<Seg("T", NoArgs), Seg("Item", NoArgs)>>),
                            <<CloneBound>>)>>),
      Some(<<WherePredicate("lifetime", TPath(<<>>), <<LifetimeBound>>)>>),
      Some(<<WherePredicate("type", TSlice(<<Seg("T", NoArgs)>>), <<CloneBound>>)>>) }

WhereParamLists ==
    { <<>>,
      <<GenericParam("type", "T", <<>>)>>,
      <<GenericParam("type", "T", <<CloneBound>>)>>,
      <<GenericParam("type", "T", <<FutureBound(TX)>>)>>,
      <<GenericParam("type", "T", <<>>), GenericParam("type", "U", <<>>)>> }

ItemInputs ==
    { Item("fn", ps, None) : ps \in ParamLists }
        \cup { Item("fn", ps, w) : ps \in WhereParamLists, w \in WhereInputs }
        \cup { Item("struct", <<GenericParam("type", "T", <<CloneBound>>)>>, None) }

SegInputs == { Seg("T", NoArgs), Seg("U", NoArgs), Seg("Z", NoArgs) }

-----------------------------------------------------------------------------
(* SpecFn: the traversal of nested items.                                  *)
(* The visitor calls process_item when it enters an item, visits what is   *)
(* inside it (path segments, nested items) and calls after_process_item    *)
(* when it leaves.  frames records, for the root of the tree and for every *)
(* item being traversed: its kind, the map process_item pushed for it      *)
(* (pushed), the Future outputs its own generics declare per name          *)
(* (declared) and the names Future-bound by the child functions already    *)
(* traversed (done).                                                       *)

\* the types ty of the bounds Future<Output = ty> among bounds
FutureOutputs(bounds) ==
    { bounds[i].path[Len(bounds[i].path)].arguments.args[1].ty :
        i \in { j \in 1..Len(bounds) :
                  /\ bounds[j].kind = "trait"
                  /\ bounds[j].path[Len(bounds[j].path)].ident = "Future"
                  /\ bounds[j].path[Len(bounds[j].path)].arguments.kind = "angle"
                  /\ Len(bounds[j].path[Len(bounds[j].path)].arguments.args) > 0
                  /\ bounds[j].path[Len(bounds[j].path)].arguments.args[1].kind
                        = "binding" } }

\* the Future outputs an item's own generics and where-clause declare for n
DeclaredOutputs(item, n) ==
    UNION { FutureOutputs(item.params[i].bounds) :
              i \in { j \in 1..Len(item.params) :
                        item.params[j].kind = "type" /\ item.params[j].ident = n } }
    \cup
    (IF IsSome(item.where_clause)
     THEN LET w == Unwrap(item.where_clause)
          IN  UNION { FutureOutputs(w[i].bounds) :
                        i \in { j \in 1..Len(w) :
                                  /\ w[j].kind = "type"
                                  /\ w[j].bounded_ty.kind = "path"
                                  /\ w[j].bounded_ty.segments[1].ident = n } }
     ELSE {})

Frame(k, pushed, declared, done) ==
    [kind |-> k, pushed |-> pushed, declared |-> declared, done |-> done]

RootFrame == Frame("root", None, [n \in TypeNames |-> {}], {})

InitFn ==
    /\ convert_mode \in ConvertMode
    /\ params = DefaultParams
    /\ generics = <<>>
    /\ op = "none"
    /\ arg = <<>>
    /\ res = <<>>
    /\ panicked = FALSE
    /\ frames = <<RootFrame>>

EnterItem ==
    /\ Idle
    /\ Len(frames) <= MaxDepth
    /\ \E item \in ItemInputs :
          LET r == process_item(convert_mode, generics, item)
          IN  /\ op' = "process_item"
              /\ arg' = item
              /\ panicked' = r.panic
              /\ res' = IF r.panic THEN <<>> ELSE r.node
              /\ generics' = r.generics
              /\ frames' =
                    IF r.panic THEN frames
                    ELSE Append(frames,
                           Frame(item.kind,
                                 IF Len(r.generics) > Len(generics)
                                 THEN Some(r.generics[Len(r.generics)]) ELSE None,
                                 [n \in TypeNames |->
                                    IF item.kind = "fn" THEN DeclaredOutputs(item, n)
                                    ELSE {}],
                                 {}))
    /\ UNCHANGED <<convert_mode, params>>

VisitPathSegment ==
    /\ Idle
    /\ \E seg \in SegInputs :
          /\ op' = "process_path_segment"
          /\ arg' = seg
          /\ res' = process_path_segment(generics, seg)
    /\ UNCHANGED <<convert_mode, params, generics, panicked, frames>>

LeaveItem ==
    /\ Idle
    /\ Len(frames) > 1
    /\ LET top == frames[Len(frames)]
           parent == frames[Len(frames) - 1]
           bound == { n \in TypeNames : top.declared[n] # {} }
       IN  /\ op' = "after_process_item"
           /\ arg' = top.kind
           /\ res' = <<>>
           /\ generics' = after_process_item(convert_mode, generics, [kind |-> top.kind])
           /\ frames' = Append(SubSeq(frames, 1, Len(frames) - 2),
                               [parent EXCEPT !.done = @ \cup bound])
    /\ UNCHANGED <<convert_mode, params, panicked>>

NextFn ==
    \/ EnterItem
    \/ VisitPathSegment
    \/ LeaveItem
    \/ Return

SpecFn == InitFn /\ [][NextFn]_vars

-----------------------------------------------------------------------------
(* C7, C8, C9, C10 *)

TopFrame == frames[Len(frames)]

\* a path segment read as the type it spells
SegAsType(seg) == TPath(<<seg>>)

\* the frames of the functions enclosing the item on top of frames
EnclosingFns == { i \in 1..(Len(frames) - 1) : frames[i].kind = "fn" }

\* C7 (as claimed): under convert-to-blocking, inside a function whose type
\* parameter T is bounded by Future<Output = X>, a visited path segment named T
\* is replaced by X, whatever type X is.
C7_BoundParamSubstituted ==
    (/\ op = "process_path_segment"
     /\ convert_mode = IntoSync
     /\ TopFrame.kind = "fn"
     /\ arg.ident \in TypeNames
     /\ Cardinality(TopFrame.declared[arg.ident]) = 1) =>
        \A X \in TopFrame.declared[arg.ident] : SegAsType(res) = X

\* C7: inside fn f<T: Future<Output = std::io::Error>> the segment T became `std`
C7_FirstSegmentOnly ==
    /\ op = "process_path_segment"
    /\ convert_mode = IntoSync
    /\ Len(frames) = 2
    /\ TopFrame.declared["T"] = {TIoError}
    /\ arg = Seg("T", NoArgs)
    /\ res = Seg("std", NoArgs)

\* item itself declares, for the name n, a Future bound whose first argument
\* binds a path type: the shape for which a function records a binding
DeclaresBound(item, n) == \E ty \in DeclaredOutputs(item, n) : ty.kind = "path"

\* C8 (as claimed): under convert-to-blocking process_item removes from a
\* function's generic parameters and where-clause exactly the type parameters
\* for which that same function declares a Future<Output = X> bound, and the
\* where predicates naming them; everything else is kept, in order, also in a
\* nested function that reuses the name of an enclosing function's parameter.
C8_OwnBoundParamsRemoved ==
    (op = "process_item" /\ convert_mode = IntoSync /\ arg.kind = "fn" /\ ~panicked) =>
        /\ res.params =
              SelectSeq(arg.params,
                        LAMBDA q : ~(q.kind = "type" /\ DeclaresBound(arg, q.ident)))
        /\ IsSome(arg.where_clause) =>
              /\ IsSome(res.where_clause)
              /\ Unwrap(res.where_clause) =
                    SelectSeq(Unwrap(arg.where_clause),
                              LAMBDA q : ~(/\ q.kind = "type"
                                           /\ q.bounded_ty.kind = "path"
                                           /\ DeclaresBound(arg,
                                                  q.bounded_ty.segments[1].ident)))

\* C8: a nested fn g<T: Clone> inside f<T: Future<Output = X>> lost its T
C8_NestedParamRemoved ==
    /\ op = "process_item"
    /\ convert_mode = IntoSync
    /\ Len(frames) = 3
    /\ frames[2].declared["T"] = {TX}
    /\ arg = Item("fn", <<GenericParam("type", "T", <<CloneBound>>)>>, None)
    /\ res.params = <<>>

\* the maps pushed for the items being traversed, outermost first
RECURSIVE PushedMaps(_)
PushedMaps(fs) ==
    IF Len(fs) = 0 THEN <<>>
    ELSE PushedMaps(SubSeq(fs, 1, Len(fs) - 1)) \o fs[Len(fs)].pushed

\* g, the function on top of frames: it declares no Future bound, no function
\* enclosing it binds the name n, and a sibling traversed before it bound n
SiblingCase(n) ==
    /\ convert_mode = IntoSync
    /\ Len(frames) >= 2
    /\ TopFrame.kind = "fn"
    /\ \A m \in TypeNames : TopFrame.declared[m] = {}
    /\ \A i \in EnclosingFns : frames[i].declared[n] = {}
    /\ n \in frames[Len(frames) - 1].done

\* C9: what a traversed function bound is gone when it has been left: the
\* stack holds exactly the maps of the functions being traversed, and a
\* following sibling g without such a bound keeps its generic parameters, its
\* where predicates and every path segment named like the sibling's parameter.
C9_SiblingIsolation ==
    /\ ~panicked => generics = PushedMaps(frames)
    /\ \A n \in TypeNames :
          /\ (op = "process_item" /\ ~panicked /\ SiblingCase(n)) => res = arg
          /\ (op = "process_path_segment" /\ SiblingCase(n) /\ arg.ident = n) =>
                res = arg

\* C9 witness: after a sibling that bound T, the segment T was visited inside
\* g<T: Clone> and is still T
C9_Witness ==
    /\ op = "process_path_segment"
    /\ SiblingCase("T")
    /\ arg = Seg("T", NoArgs)
    /\ res = arg
    /\ generics = <<EmptyMap>>

\* C9 witness of the signature: g<T: Clone> where T: Clone entered after a
\* sibling that bound T, and nothing of it was removed
C9_WitnessSignature ==
    /\ op = "process_item"
    /\ SiblingCase("T")
    /\ arg = Item("fn", <<GenericParam("type", "T", <<CloneBound>>)>>,
                  Some(<<PredT(CloneBound)>>))
    /\ res = arg

\* C10 (as claimed): when an outer and an inner function both bind T, to
\* different result types, a lookup of T made inside the inner function gives
\* the inner function's binding.
C10_InnermostWins ==
    (/\ op = "process_path_segment"
     /\ convert_mode = IntoSync
     /\ TopFrame.kind = "fn"
     /\ arg.ident \in TypeNames
     /\ IsSome(TopFrame.pushed)
     /\ arg.ident \in DOMAIN Unwrap(TopFrame.pushed)
     /\ \E i \in EnclosingFns :
           /\ IsSome(frames[i].pushed)
           /\ arg.ident \in DOMAIN Unwrap(frames[i].pushed)
           /\ Unwrap(frames[i].pushed)[arg.ident]
                 # Unwrap(TopFrame.pushed)[arg.ident]) =>
        /\ generics_get(generics, arg.ident) = Some(Unwrap(TopFrame.pushed)[arg.ident])
        /\ res = Unwrap(TopFrame.pushed)[arg.ident]

\* C10: inside g<T: Future<Output = Vec<u8>>> nested in f<T: Future<Output = X>>
\* the lookup of T gave X, the outer binding
C10_OutermostReturned ==
    /\ op = "process_path_segment"
    /\ Len(frames) = 3
    /\ frames[2].pushed = Some([n \in {"T"} |-> Seg("X", NoArgs)])
    /\ frames[3].declared["T"] = {TVecU8}
    /\ arg = Seg("T", NoArgs)
    /\ res = Seg("X", NoArgs)

-----------------------------------------------------------------------------
(* Doc attributes and the doc-example filter (feature "doctests").         *)
(* A string is the sequence of its lines (the text between its newline   *)
(* characters), so the empty string is one empty line.  A line is         *)
(* [kind, key, text]:                                                      *)
(*   "text"   a line of prose or code                                      *)
(*   "empty"  an empty line                                                *)
(*   "fence"  the opening line of an example, key = Some(K) when it is     *)
(*            tagged only_if(K)                                            *)
(*   "close"  the closing line of an example                               *)
(* A doc attribute is [path, style, tokens]; the tokens of #[doc = "s"]    *)
(* are EqStr(s).                                                           *)

DocLine(k, key, text) == [kind |-> k, key |-> key, text |-> text]
EmptyLine == DocLine("empty", None, "")

EqStr(value) == [kind |-> "eq_str", value |-> value]
ParenTokens == [kind |-> "paren", value |-> <<>>]
DocAttr(path, style, tokens) == [path |-> path, style |-> style, tokens |-> tokens]

\* syn::parse2::<EqStr>: the string after the equals sign
parse_eq_str(tokens) ==
    IF tokens.kind = "eq_str" THEN [ok |-> TRUE, str |-> tokens.value]
    ELSE [ok |-> FALSE, str |-> <<>>]

RECURSIVE join_lines(_)
\* the strings of the vector joined with newline characters
join_lines(lines) ==
    IF Len(lines) = 0 THEN <<>> ELSE lines[1] \o join_lines(Tail(lines))

\* str::lines: the lines of a string; a final empty line is not a line
str_lines(doc) ==
    IF Len(doc) > 0 /\ doc[Len(doc)].kind = "empty"
    THEN SubSeq(doc, 1, Len(doc) - 1)
    ELSE doc

processor_keeping_others(p, key, code) ==
    IF IsSome(key_get(p))
    THEN (IF Unwrap(key_get(p)) = key THEN Some(None) ELSE Some(Some(code)))
    ELSE None

\* the closure handed to process_doctests: Option<Option<String>>
processor(p, key, code) ==
    IF IsSome(key_get(p))
    THEN (IF Unwrap(key_get(p)) = key THEN Some(Some(code)) ELSE Some(None))
    ELSE None

\* the last line of the example opened at line i: its closing line, or the
\* end of the text when it is never closed
section_end(doc, i) ==
    IF \E j \in (i + 1)..Len(doc) : doc[j].kind = "close"
    THEN CHOOSE j \in (i + 1)..Len(doc) :
            /\ doc[j].kind = "close"
            /\ \A t \in (i + 1)..(j - 1) : doc[t].kind # "close"
    ELSE Len(doc)

RECURSIVE doctests_scan(_, _, _, _)
\* process_doctests from line i on; st = [out, processed]
doctests_scan(p, doc, i, st) ==
    IF i > Len(doc) THEN st
    ELSE IF doc[i].kind = "fence" THEN
        LET j == section_end(doc, i)
            section == SubSeq(doc, i, j)
            r == IF IsSome(doc[i].key) THEN processor(p, Unwrap(doc[i].key), section)
                 ELSE None
        IN  IF r = None
            THEN doctests_scan(p, doc, j + 1, [st EXCEPT !.out = @ \o section])
            ELSE doctests_scan(p, doc, j + 1,
                    [out |-> st.out \o (IF IsSome(Unwrap(r)) THEN Unwrap(Unwrap(r))
                                        ELSE <<EmptyLine>>),
                     processed |-> TRUE])
    ELSE doctests_scan(p, doc, i + 1, [st EXCEPT !.out = Append(@, doc[i])])

\* process_doctests(doc, processor): Some(text) when the processor decided
\* about an example, None when the text is to be left as it is
process_doctests(p, doc) ==
    LET st == doctests_scan(p, doc, 1, [out |-> <<>>, processed |-> FALSE])
    IN  IF st.processed THEN Some(st.out) ELSE None

emit_doc_attrs_all_new(acc_temp, ls) ==
    [i \in 1..Len(ls) |-> DocAttr(<<"doc">>, "outer", EqStr(<<ls[i]>>))]

\* the loop over doc.lines(): one attribute per line, the attributes of the
\* run first, new ones when they are used up
emit_doc_attrs(acc_temp, ls) ==
    [i \in 1..Len(ls) |->
        IF i <= Len(acc_temp)
        THEN [acc_temp[i] EXCEPT !.tokens = EqStr(<<ls[i]>>)]
        ELSE DocAttr(<<"doc">>, "outer", EqStr(<<ls[i]>>))]

\* process_docs: returns acc with the run appended
process_docs(p, acc, acc_temp, lines) ==
    LET r == process_doctests(p, join_lines(lines))
    IN  IF IsSome(r)
        THEN acc \o emit_doc_attrs(acc_temp, str_lines(Unwrap(r)))
        ELSE acc \o acc_temp

RECURSIVE doc_attrs_loop(_, _, _, _)
\* the loop over attrs.drain(..) from attribute i on;
\* st = [acc, acc_temp, lines, inside_doc]; returns [result, attrs]
doc_attrs_loop(p, attrs, i, st) ==
    IF i > Len(attrs) THEN
        [result |-> Ok,
         attrs |-> IF st.inside_doc THEN process_docs(p, st.acc, st.acc_temp, st.lines)
                   ELSE st.acc]
    ELSE IF attrs[i].path = <<"doc">> THEN
        LET es == parse_eq_str(attrs[i].tokens)
        IN  IF ~es.ok
            THEN [result |-> Err(attrs[i].tokens, "expected ="), attrs |-> <<>>]
            ELSE doc_attrs_loop(p, attrs, i + 1,
                    [st EXCEPT !.lines = Append(@, es.str),
                               !.acc_temp = Append(@, attrs[i]),
                               !.inside_doc = TRUE])
    ELSE IF st.inside_doc THEN
        doc_attrs_loop(p, attrs, i + 1,
            [acc |-> Append(process_docs(p, st.acc, st.acc_temp, st.lines), attrs[i]),
             acc_temp |-> <<>>, lines |-> <<>>, inside_doc |-> FALSE])
    ELSE doc_attrs_loop(p, attrs, i + 1, [st EXCEPT !.acc = Append(@, attrs[i])])

\* returns [result, attrs]
process_doc_attrs(p, attrs) ==
    doc_attrs_loop(p, attrs, 1,
        [acc |-> <<>>, acc_temp |-> <<>>, lines |-> <<>>, inside_doc |-> FALSE])

-----------------------------------------------------------------------------
(* SpecDocs: the doc-example filter and the doc pass of process_attrs *)

TextLine == DocLine("text", None, "This is a structure.")
CodeLine == DocLine("text", None, "let s = Struct::new();")
FenceLine(key) == DocLine("fence", key, "rust")
CloseLine == DocLine("close", None, "")

DocLineInputs ==
    { TextLine, CodeLine, EmptyLine, CloseLine,
      FenceLine(None), FenceLine(Some("sync")), FenceLine(Some("async")) }

\* texts of up to MaxDocLines lines
DocInputs == SeqsUpTo(DocLineInputs, MaxDocLines) \ {<<>>}

Example(key) == <<FenceLine(key), CodeLine, CloseLine>>

DocAttrInputs ==
    { DocAttr(<<"doc">>, "outer", EqStr(<<l>>)) :
        l \in {TextLine, EmptyLine, CodeLine, CloseLine, FenceLine(Some("async"))} }
    \cup { DocAttr(<<"doc">>, "outer", EqStr(Example(k))) :
             k \in {None, Some("sync"), Some("async")} }
    \cup { DocAttr(<<"doc">>, "inner", EqStr(<<TextLine>>)),
           DocAttr(<<"doc">>, "outer", ParenTokens),
           DocAttr(<<"marker">>, "outer", ParenTokens),
           DocAttr(<<"other">>, "outer", ParenTokens) }

DocAttrLists == SeqsUpTo(DocAttrInputs, MaxDocAttrs)

InitDocs ==
    /\ convert_mode \in ConvertMode
    /\ \E k \in KeyInputs : params = [DefaultParams EXCEPT !.key = k]
    /\ InitCommon

ProcessDoctests ==
    /\ Idle
    /\ \E doc \in DocInputs :
          /\ op' = "process_doctests"
          /\ arg' = doc
          /\ res' = process_doctests(params, doc)
    /\ UNCHANGED <<convert_mode, params, generics, panicked, frames>>

ProcessDocAttrs ==
    /\ Idle
    /\ \E attrs \in DocAttrLists :
          /\ op' = "process_doc_attrs"
          /\ arg' = attrs
          /\ res' = process_doc_attrs(params, attrs)
    /\ UNCHANGED <<convert_mode, params, generics, panicked, frames>>

NextDocs ==
    \/ ProcessDoctests
    \/ ProcessDocAttrs
    \/ Return

SpecDocs == InitDocs /\ [][NextDocs]_vars

-----------------------------------------------------------------------------

(* C17 *)

\* line i lies in an example: a fence at or before it is not yet closed
InExample(doc, i) ==
    \E s \in 1..i : doc[s].kind = "fence" /\ \A t \in s..(i - 1) : doc[t].kind # "close"

\* the opening line of the example line i lies in
Opener(doc, i) ==
    CHOOSE s \in 1..i :
        /\ doc[s].kind = "fence" /\ \A t \in s..(i - 1) : doc[t].kind # "close"
        /\ \A r \in 1..(s - 1) :
              ~(doc[r].kind = "fence" /\ \A t \in r..(i - 1) : doc[t].kind # "close")

\* the key line i is tagged for, None for untagged text
TagOf(doc, i) == IF InExample(doc, i) THEN doc[Opener(doc, i)].key ELSE None

\* C17: a section tagged for the current key is kept verbatim, a section
\* tagged for a different key is removed (an empty string takes its place),
\* untagged text is always kept; without a variant key nothing is removed.
C17_DocExampleFilter ==
    op = "process_doctests" =>
        LET out == IF IsSome(res) THEN Unwrap(res) ELSE arg
            removed(i) == /\ IsSome(params.key)
                          /\ IsSome(TagOf(arg, i))
                          /\ TagOf(arg, i) # params.key
            idx == SelectSeq([i \in 1..Len(arg) |-> i],
                             LAMBDA i : ~removed(i) \/ Opener(arg, i) = i)
        IN  /\ Len(out) = Len(idx)
            /\ \A k \in 1..Len(idx) :
                  out[k] = IF removed(idx[k]) THEN EmptyLine ELSE arg[idx[k]]
            /\ ~IsSome(params.key) => res = None

\* C17 witness: under key sync the example tagged only_if(async) was removed
\* and the text before it kept
C17_Witness ==
    /\ op = "process_doctests"
    /\ params.key = Some("sync")
    /\ arg = <<TextLine>> \o Example(Some("async"))
    /\ res = Some(<<TextLine, EmptyLine>>)

\* C17 witness: under key async the same example was kept verbatim
C17_WitnessKept ==
    /\ op = "process_doctests"
    /\ params.key = Some("async")
    /\ arg = <<TextLine>> \o Example(Some("async"))
    /\ res = Some(arg)

-----------------------------------------------------------------------------
(* C20 *)

IsDocAttr(a) == a.path = <<"doc">>

\* the length of the run of doc attributes the list starts with
DocPrefixLen(attrs) ==
    CHOOSE n \in 0..Len(attrs) :
        /\ \A i \in 1..n : IsDocAttr(attrs[i])
        /\ n = Len(attrs) \/ ~IsDocAttr(attrs[n + 1])

RECURSIVE RunsReEmitted(_, _, _)
\* outs is ins with every run of doc attributes re-emitted in its place
RunsReEmitted(p, ins, outs) ==
    IF Len(ins) = 0 THEN Len(outs) = 0
    ELSE IF ~IsDocAttr(ins[1]) THEN
        /\ Len(outs) > 0
        /\ outs[1] = ins[1]
        /\ RunsReEmitted(p, Tail(ins), Tail(outs))
    ELSE
        LET n == DocPrefixLen(ins)
            run == SubSeq(ins, 1, n)
            f == process_doctests(p, join_lines([i \in 1..n |-> run[i].tokens.value]))
            ls == IF IsSome(f) THEN str_lines(Unwrap(f)) ELSE <<>>
            m == IF IsSome(f) THEN Len(ls) ELSE n
        IN  /\ Len(outs) >= m
            /\ IF IsSome(f)
               THEN \A i \in 1..m :
                       /\ outs[i].tokens = EqStr(<<ls[i]>>)
                       /\ i <= n => /\ outs[i].path = run[i].path
                                    /\ outs[i].style = run[i].style
                       /\ i > n => /\ outs[i].path = <<"doc">>
                                   /\ outs[i].style = "outer"
               ELSE SubSeq(outs, 1, n) = run
            /\ RunsReEmitted(p, SubSeq(ins, n + 1, Len(ins)), SubSeq(outs, m + 1, Len(outs)))

\* C20: when the filter changes a run of consecutive doc attributes, the
\* filtered text is re-emitted one doc attribute per line, reusing the
\* attributes of the run in order and creating a new doc attribute only when
\* there are more lines than attributes; the run keeps its position among the
\* other attributes; when the filter reports no change the doc attributes of
\* the run are re-emitted unchanged.
C20_DocRunReEmitted ==
    (op = "process_doc_attrs" /\ res.result.ok) =>
        RunsReEmitted(params, arg, res.attrs)

\* C20 witness: the run #![doc = text] #[doc = example] between two other
\* attributes became four attributes, the first two reused (the first still
\* an inner attribute), the last two new
C20_Witness ==
    /\ op = "process_doc_attrs"
    /\ params.key = Some("sync")
    /\ Len(arg) = 3
    /\ arg[1] = DocAttr(<<"marker">>, "outer", ParenTokens)
    /\ arg[2] = DocAttr(<<"doc">>, "inner", EqStr(<<TextLine>>))
    /\ arg[3] = DocAttr(<<"doc">>, "outer", EqStr(Example(Some("sync"))))
    /\ res.result.ok
    /\ res.attrs = <<arg[1],
                     DocAttr(<<"doc">>, "inner", EqStr(<<TextLine>>)),
                     DocAttr(<<"doc">>, "outer", EqStr(<<FenceLine(Some("sync"))>>)),
                     DocAttr(<<"doc">>, "outer", EqStr(<<CodeLine>>)),
                     DocAttr(<<"doc">>, "outer", EqStr(<<CloseLine>>))>>

\* C20 witness: the filter reported no change (no variant key) and the run
\* was re-emitted as it was
C20_WitnessUnchanged ==
    /\ op = "process_doc_attrs"
    /\ params.key = None
    /\ Len(arg) = 2
    /\ arg[1] = DocAttr(<<"doc">>, "outer", EqStr(Example(Some("sync"))))
    /\ arg[2] = DocAttr(<<"other">>, "outer", ParenTokens)
    /\ res.result.ok
    /\ res.attrs = arg

\* C20 witness: the removed example left fewer lines than the run had
\* attributes and the attributes left over were not re-emitted
C20_WitnessFewerLines ==
    /\ op = "process_doc_attrs"
    /\ params.key = Some("sync")
    /\ Len(arg) = 3
    /\ arg[1] = DocAttr(<<"doc">>, "outer", EqStr(<<FenceLine(Some("async"))>>))
    /\ arg[2] = DocAttr(<<"doc">>, "outer", EqStr(<<CodeLine>>))
    /\ arg[3] = DocAttr(<<"doc">>, "outer", EqStr(<<CloseLine>>))
    /\ res.result.ok
    /\ res.attrs = <<>>

-----------------------------------------------------------------------------

(* C16 *)

\* a where predicate on a type whose bounded type is not a path
HasNonPathPredicate(item) ==
    /\ IsSome(item.where_clause)
    /\ \E i \in 1..Len(Unwrap(item.where_clause)) :
          /\ Unwrap(item.where_clause)[i].kind = "type"
          /\ Unwrap(item.where_clause)[i].bounded_ty.kind # "path"

\* a trait bound whose last segment is Future<> with nothing between the
\* angle brackets
IsEmptyFutureBound(b) ==
    /\ b.kind = "trait"
    /\ b.path[Len(b.path)].ident = "Future"
    /\ b.path[Len(b.path)].arguments.kind = "angle"
    /\ Len(b.path[Len(b.path)].arguments.args) = 0

HasEmptyFutureBound(item) ==
    \/ \E i \in 1..Len(item.params) :
          /\ item.params[i].kind = "type"
          /\ \E j \in 1..Len(item.params[i].bounds) :
                IsEmptyFutureBound(item.params[i].bounds[j])
    \/ /\ IsSome(item.where_clause)
       /\ \E i \in 1..Len(Unwrap(item.where_clause)) :
             /\ Unwrap(item.where_clause)[i].kind = "type"
             /\ \E j \in 1..Len(Unwrap(item.where_clause)[i].bounds) :
                   IsEmptyFutureBound(Unwrap(item.where_clause)[i].bounds[j])

\* C16: when generic-bound substitution meets an unexpected construct (a where
\* predicate whose bounded type is not a path, or a Future bound with an empty
\* angle-bracket list), the invocation ends with a reported error value; it
\* never aborts by panic.
C16_StructuralErrorReported ==
    (/\ op = "process_item"
     /\ convert_mode = IntoSync
     /\ arg.kind = "fn"
     /\ HasNonPathPredicate(arg) \/ HasEmptyFutureBound(arg)) =>
        ~panicked

\* C16: `fn f<T>() where [T]: Clone` made process_item panic
C16_PanicOnNonPathPredicate ==
    /\ op = "process_item"
    /\ convert_mode = IntoSync
    /\ HasNonPathPredicate(arg)
    /\ ~HasEmptyFutureBound(arg)
    /\ panicked

\* C16: `fn f<T: Future<>>()` made process_item panic
C16_PanicOnEmptyFutureBound ==
    /\ op = "process_item"
    /\ convert_mode = IntoSync
    /\ HasEmptyFutureBound(arg)
    /\ ~HasNonPathPredicate(arg)
    /\ panicked

-----------------------------------------------------------------------------
(* C19 *)

\* the function items being traversed
OpenFns == { i \in 1..Len(frames) : frames[i].kind = "fn" }

\* C19: during a convert-to-blocking traversal the binding stack is pushed
\* once on entering each function item and popped once on leaving it: its
\* depth is the number of function items being traversed, and it is empty
\* before the traversal and whenever no top-level item is being traversed.
C19_StackDepth ==
    (convert_mode = IntoSync /\ ~panicked) =>
        /\ Len(generics) = Cardinality(OpenFns)
        /\ Len(frames) = 1 => generics = <<>>
        /\ (op = "process_item" /\ arg.kind = "fn") =>
              Len(generics) = Cardinality(OpenFns \ {Len(frames)}) + 1
        /\ (op = "process_item" /\ arg.kind # "fn") =>
              Len(generics) = Cardinality(OpenFns \ {Len(frames)})

\* C19 witness: a function nested in a function, neither with a Future bound,
\* is being traversed and the stack holds two maps
C19_Witness ==
    /\ convert_mode = IntoSync
    /\ op = "process_item"
    /\ Len(frames) = 3
    /\ OpenFns = {2, 3}
    /\ generics = <<EmptyMap, EmptyMap>>

\* C19 witness: the last top-level function was left and the stack is empty
C19_WitnessEmptied ==
    /\ convert_mode = IntoSync
    /\ op = "after_process_item"
    /\ arg = "fn"
    /\ Len(frames) = 1
    /\ generics = <<>>

-----------------------------------------------------------------------------
(* C21 *)

\* C21: under convert-to-suspending the generic-bound substitution never
\* runs: the binding stack stays empty for the whole traversal, no generic
\* parameter or where predicate is removed and no path segment is
\* substituted, even for functions that declare a Future<Output = X> bound.
C21_SuspendingNoSubstitution ==
    convert_mode = IntoAsync =>
        /\ generics = <<>>
        /\ ~panicked
        /\ \A i \in 1..Len(frames) : frames[i].pushed = None
        /\ op = "process_item" => res = arg
        /\ op = "process_path_segment" => res = arg

\* C21 witness: under convert-to-suspending the segment T was visited inside
\* a function that bounds T by Future<Output = X>, and it is still T
C21_Witness ==
    /\ convert_mode = IntoAsync
    /\ op = "process_path_segment"
    /\ Len(frames) >= 2
    /\ TopFrame.kind = "fn"
    /\ TopFrame.declared["T"] = {TX}
    /\ arg = Seg("T", NoArgs)
    /\ res = arg
    /\ generics = <<>>

\* C21 witness: the function declaring the bound kept its parameter
C21_WitnessSignature ==
    /\ convert_mode = IntoAsync
    /\ op = "process_item"
    /\ arg.kind = "fn"
    /\ DeclaresBound(arg, "T")
    /\ res = arg

====
